---- MODULE Spec2Model ----
(***************************************************************************)
(* The agentic sampling loop of operative/loop.py together with the part   *)
(* of the Streamlit entrypoints (operative/operative.py and                 *)
(* operative/streamlit.py) that feeds it: the message history, the          *)
(* in_sampling_loop flag, the user-input handler with its interruption      *)
(* blocks, and the three notification sinks.                                *)
(***************************************************************************)
EXTENDS Integers, Sequences, FiniteSets, TLC

VARIABLES
    messages,                   \* st.session_state.messages: the history
    messages_obj,               \* identity of the list object held by the session
    tools,                      \* keys of st.session_state.tools
    in_sampling_loop,           \* st.session_state.in_sampling_loop
    auth_validated,             \* st.session_state.auth_validated
    provider,                   \* st.session_state.provider
    only_n_most_recent_images,  \* st.session_state.only_n_most_recent_images
    entrypoint,                 \* which UI module registered the sinks
    pc,                         \* control state of the sampling_loop call
    full_response,              \* stream_response's result (NoMessage = None)
    response_params,            \* content of the assistant turn being dispatched
    k,                          \* process_tools: index of the next block
    tool_results,               \* process_tools: results collected so far
    next_id,                    \* next tool_use id the provider hands out
    next_uid,                   \* identity given to the next turn object created
    runs,                       \* sampling_loop calls started so far
    api_calls,                  \* api_response_callback invocations of this call
    dispatch_log,               \* tool runs / tool sink calls of this batch
    iter_start,                 \* the history when the current iteration began
    fail_at,                    \* control state in which the except clause fired
    caught,                     \* the exception the except clause caught
    running,                    \* positions of the tool_use blocks whose run is in progress
    open_exchanges,             \* provider exchanges (streams) that are open
    fn,                         \* what is exercised: the session, or one function
    arg_images_to_keep,         \* images_to_keep of the retention policy under test
    arg_min_removal_threshold,  \* min_removal_threshold of the policy under test
    fn_applied,                 \* the calls made on the history, in order
    fn_before,                  \* the history before each of the calls
    fn_raised,                  \* the exception the last call raised ("None": none)
    fn_arg,                     \* the argument of the function under test
    fn_out,                     \* what the function under test returned
    stream,                     \* the events of the exchange not yet delivered
    consumed,                   \* the events stream_response has handled
    output_calls                \* the notifications output_callback was given

vars == <<messages, messages_obj, tools, in_sampling_loop, auth_validated, provider,
          only_n_most_recent_images, entrypoint, pc, full_response,
          response_params, k, tool_results, next_id, next_uid, runs, api_calls,
          dispatch_log, iter_start, fail_at, caught, running, open_exchanges, fn,
          arg_images_to_keep, arg_min_removal_threshold, fn_applied, fn_before,
          fn_raised, fn_arg, fn_out, stream, consumed, output_calls>>

\* the variables of the session
session_vars == <<messages_obj, tools, in_sampling_loop, auth_validated, provider,
                  only_n_most_recent_images, entrypoint, pc, full_response,
                  response_params, k, tool_results, next_id, next_uid, runs,
                  api_calls, dispatch_log, iter_start, fail_at, caught, running,
                  open_exchanges>>

\* the variables of a function exercised on its own
fn_vars == <<fn, arg_images_to_keep, arg_min_removal_threshold, fn_applied,
             fn_before, fn_raised, fn_arg, fn_out, stream, consumed, output_calls>>

\* the variables of an exchange whose events are delivered one by one
stream_vars == <<stream, consumed, output_calls>>

(***************************************************************************)
(* Bounds of the model.                                                     *)
(***************************************************************************)
MaxRuns == 2
MaxIds == 2

(***************************************************************************)
(* Program constants.                                                       *)
(***************************************************************************)
INTERRUPT_TEXT == "(user stopped or interrupted and wrote the following)"
INTERRUPT_TOOL_ERROR == "human stopped or interrupted tool execution"
BreakpointsInitial == 3
\* APIProvider; the loop treats VERTEX as it treats BEDROCK (no prompt caching,
\* image retention on), so one of the two stands for both
Providers == {"anthropic", "bedrock"}
Entrypoints == {"operative", "streamlit"}
UserTexts == {"stop"}
ImageLimits == {0, 1}
NoInput == "<no chat input>"

(***************************************************************************)
(* Content blocks. Every block is a record with the same fields, so that    *)
(* blocks of different types can be compared.                               *)
(***************************************************************************)
Block(type, id, text) ==
    [type |-> type, id |-> id, text |-> text, is_error |-> FALSE,
     list_content |-> FALSE, content |-> <<>>, cache_control |-> FALSE]

BetaTextBlockParam(text) == Block("text", 0, text)

BetaToolUseBlockParam(id) == Block("tool_use", id, "")

ThinkingBlockParam(text) == Block("thinking", 0, text)

\* content is either a string (text) or a list of sub-blocks (content)
BetaToolResultBlockParam(tool_use_id, is_list, text, content, is_error) ==
    [type |-> "tool_result", id |-> tool_use_id, text |-> text, is_error |-> is_error,
     list_content |-> is_list, content |-> content, cache_control |-> FALSE]

TextSubBlock(text) == [type |-> "text", text |-> text]

ImageSubBlock(data) == [type |-> "image", text |-> data]

\* sender_enum: the role was written as Sender.USER (the UI) and not as a plain
\* string (the loop); uid: the identity of the turn object
Turn(role, content, sender_enum, uid) ==
    [role |-> role, content |-> content, sender_enum |-> sender_enum, uid |-> uid]

ToolUseIds(content) ==
    LET tu == SelectSeq(content, LAMBDA b: b.type = "tool_use")
    IN  [i \in 1..Len(tu) |-> tu[i].id]

(***************************************************************************)
(* ToolResult and the tool registry.                                        *)
(***************************************************************************)
ToolResult(output, error, base64_image, system) ==
    [output |-> output, error |-> error, base64_image |-> base64_image,
     system |-> system]

\* what the tool that is run does: it returns a screenshot with its output, it
\* returns a result that signals an error, or it raises
ToolOutcomes == {"screenshot", "error", "raise"}

\* what a tool hands back when it does not raise
ToolReturn(o) ==
    IF o = "screenshot" THEN ToolResult("out", "", "png", "")
    ELSE ToolResult("", "tool error", "", "")

\* ToolCollection.run: an exception of the tool becomes an error-carrying result
ToolCollectionRun(o) ==
    IF o = "raise" THEN ToolResult("", "exception", "", "") ELSE ToolReturn(o)

_maybe_prepend_system_tool_result_Appends(result, result_text) ==
    IF result.system # ""
    THEN result_text \o "<system>" \o result.system \o "</system>\n"
    ELSE result_text

_maybe_prepend_system_tool_result(result, result_text) ==
    IF result.system # ""
    THEN "<system>" \o result.system \o "</system>\n" \o result_text
    ELSE result_text

\* mutant: the result block does not carry the id of the tool_use block
_make_api_tool_result_NoId(result, tool_use_id) ==
    IF result.error # ""
    THEN BetaToolResultBlockParam(0, FALSE,
             _maybe_prepend_system_tool_result(result, result.error), <<>>, TRUE)
    ELSE BetaToolResultBlockParam(0, TRUE, "",
             (IF result.output # ""
              THEN <<TextSubBlock(_maybe_prepend_system_tool_result(result, result.output))>>
              ELSE <<>>)
             \o (IF result.base64_image # ""
                 THEN <<ImageSubBlock(result.base64_image)>> ELSE <<>>),
             FALSE)

_make_api_tool_result_ImageFirst(result, tool_use_id) ==
    IF result.error # ""
    THEN BetaToolResultBlockParam(tool_use_id, FALSE,
             _maybe_prepend_system_tool_result(result, result.error), <<>>, TRUE)
    ELSE BetaToolResultBlockParam(tool_use_id, TRUE, "",
             (IF result.base64_image # ""
              THEN <<ImageSubBlock(result.base64_image)>> ELSE <<>>)
             \o (IF result.output # ""
                 THEN <<TextSubBlock(_maybe_prepend_system_tool_result(result, result.output))>>
                 ELSE <<>>),
             FALSE)

\* mutant: the error branch forgets to set is_error
_make_api_tool_result_NoErrorFlag(result, tool_use_id) ==
    IF result.error # ""
    THEN BetaToolResultBlockParam(tool_use_id, FALSE,
             _maybe_prepend_system_tool_result(result, result.error), <<>>, FALSE)
    ELSE BetaToolResultBlockParam(tool_use_id, TRUE, "", <<>>, FALSE)

_make_api_tool_result(result, tool_use_id) ==
    IF result.error # ""
    THEN BetaToolResultBlockParam(tool_use_id, FALSE,
             _maybe_prepend_system_tool_result(result, result.error), <<>>, TRUE)
    ELSE BetaToolResultBlockParam(tool_use_id, TRUE, "",
             (IF result.output # ""
              THEN <<TextSubBlock(_maybe_prepend_system_tool_result(result, result.output))>>
              ELSE <<>>)
             \o (IF result.base64_image # ""
                 THEN <<ImageSubBlock(result.base64_image)>> ELSE <<>>),
             FALSE)

(***************************************************************************)
(* The provider's final message and its conversion to an assistant turn.    *)
(***************************************************************************)
NoMessage == [present |-> FALSE, content |-> <<>>]

BetaMessage(content) == [present |-> TRUE, content |-> content]

ResponseShapes ==
    { <<"empty_text", "text">>, <<"thinking", "tool_use">>,
      <<"tool_use", "text", "tool_use">> }

ToolUseCount(shape) == Len(SelectSeq(shape, LAMBDA t: t = "tool_use"))

\* the message the provider sends for a shape, its tool_use ids fresh from first_id
MakeResponse(shape, first_id) ==
    BetaMessage(
        [i \in 1..Len(shape) |->
            CASE shape[i] = "text"       -> Block("text", 0, "hello")
              [] shape[i] = "empty_text" -> Block("text", 0, "")
              [] shape[i] = "thinking"   -> ThinkingBlockParam("hmm")
              [] OTHER -> BetaToolUseBlockParam(
                              first_id + ToolUseCount(SubSeq(shape, 1, i - 1)))])

RECURSIVE _response_to_params(_)
_response_to_params(content) ==
    IF content = <<>> THEN <<>>
    ELSE LET block == Head(content)
             rest == _response_to_params(Tail(content))
         IN  IF block.type = "text"
             THEN (IF block.text # "" THEN <<BetaTextBlockParam(block.text)>> \o rest
                   ELSE rest)
             ELSE <<block>> \o rest

(***************************************************************************)
(* Prompt cache annotator.                                                  *)
(***************************************************************************)
\* a plain-string content (message["content"] of type str) is written as one
\* pseudo-block of type "str" that holds the string
StrContent(text) == <<Block("str", 0, text)>>

\* isinstance(content := message["content"], list)
IsList(content) == ~(Len(content) = 1 /\ content[1].type = "str")

SetLastCacheControl_First(msgs, i, on) ==
    LET c == msgs[i].content
    IN  [msgs EXCEPT ![i].content = [c EXCEPT ![1].cache_control = on]]

\* content[-1]["cache_control"] = ... / content[-1].pop("cache_control", None)
SetLastCacheControl(msgs, i, on) ==
    LET c == msgs[i].content
    IN  [msgs EXCEPT ![i].content = [c EXCEPT ![Len(c)].cache_control = on]]

RECURSIVE InjectFrom(_, _, _)
InjectFrom(msgs, i, breakpoints_remaining) ==
    IF i = 0 THEN msgs
    ELSE IF msgs[i].role = "user" /\ IsList(msgs[i].content)
         THEN IF breakpoints_remaining > 0
              THEN InjectFrom(SetLastCacheControl(msgs, i, TRUE), i - 1,
                              breakpoints_remaining - 1)
              ELSE SetLastCacheControl(msgs, i, FALSE)
         ELSE InjectFrom(msgs, i - 1, breakpoints_remaining)

_inject_prompt_caching(msgs) == InjectFrom(msgs, Len(msgs), BreakpointsInitial)

\* content[-1] of an empty content list is an IndexError; the scan looks at the
\* BreakpointsInitial + 1 most recent user turns
InjectRaises(msgs) ==
    \E i \in 1..Len(msgs) :
        /\ msgs[i].role = "user"
        /\ msgs[i].content = <<>>
        /\ Cardinality({j \in i..Len(msgs) :
                            msgs[j].role = "user" /\ IsList(msgs[j].content)})
               <= BreakpointsInitial + 1

(***************************************************************************)
(* Image retention policy.                                                  *)
(***************************************************************************)
IsImage(sub) == sub.type = "image"

ImagesIn(content) == Len(SelectSeq(content, IsImage))

RECURSIVE ImagesInBlocks(_)
ImagesInBlocks(blocks) ==
    IF blocks = <<>> THEN 0
    ELSE (IF Head(blocks).type = "tool_result" /\ Head(blocks).list_content
          THEN ImagesIn(Head(blocks).content) ELSE 0)
         + ImagesInBlocks(Tail(blocks))

RECURSIVE TotalImages(_)
TotalImages(msgs) ==
    IF msgs = <<>> THEN 0
    ELSE ImagesInBlocks(Head(msgs).content) + TotalImages(Tail(msgs))

\* new_content of one tool_result: the first n images are left out
RECURSIVE NewContent(_, _)

\* mutant: at most one image is taken out of a tool_result in one call
NewContent_OnePerBlock(content, n) ==
    LET images == {m \in 1..Len(content) : IsImage(content[m])}
    IN  IF n > 0 /\ images # {}
        THEN LET first == CHOOSE m \in images : \A x \in images : m <= x
             IN  SubSeq(content, 1, first - 1) \o SubSeq(content, first + 1, Len(content))
        ELSE content

\* mutant: every image of a tool_result goes once one of them has to
NewContent_WholeBlock(content, n) ==
    IF n > 0 THEN SelectSeq(content, LAMBDA sub: ~IsImage(sub)) ELSE content

\* mutant: the sub-blocks before a removed image go with it
NewContent_DropsText(content, n) ==
    LET images == {m \in 1..Len(content) : IsImage(content[m])}
    IN  IF n > 0 /\ images # {}
        THEN LET first == CHOOSE m \in images : \A x \in images : m <= x
             IN  NewContent(SubSeq(content, first + 1, Len(content)), n - 1)
        ELSE content

NewContent(content, n) ==
    IF content = <<>> THEN <<>>
    ELSE IF IsImage(Head(content)) /\ n > 0
         THEN NewContent(Tail(content), n - 1)
         ELSE <<Head(content)>> \o NewContent(Tail(content), n)

Min(a, b) == IF a < b THEN a ELSE b

RECURSIVE FilterBlocks(_, _)

\* mutant: a tool_result that loses an image is dropped from its turn
FilterBlocks_DropsBlock(blocks, n) ==
    IF blocks = <<>> THEN <<>>
    ELSE LET b == Head(blocks)
             here == IF b.type = "tool_result" /\ b.list_content
                     THEN ImagesIn(b.content) ELSE 0
         IN  (IF here > 0 /\ n > 0 THEN <<>> ELSE <<b>>)
             \o FilterBlocks(Tail(blocks), n - Min(n, here))

FilterBlocks(blocks, n) ==
    IF blocks = <<>> THEN <<>>
    ELSE LET b == Head(blocks)
             here == IF b.type = "tool_result" /\ b.list_content
                     THEN ImagesIn(b.content) ELSE 0
             nb == IF b.type = "tool_result" /\ b.list_content
                   THEN [b EXCEPT !.content = NewContent(b.content, n)] ELSE b
         IN  <<nb>> \o FilterBlocks(Tail(blocks), n - Min(n, here))

RECURSIVE FilterMessages(_, _)
FilterMessages(msgs, n) ==
    IF msgs = <<>> THEN <<>>
    ELSE LET m == Head(msgs)
             here == ImagesInBlocks(m.content)
         IN  <<[m EXCEPT !.content = FilterBlocks(m.content, n)]>>
             \o FilterMessages(Tail(msgs), n - Min(n, here))

\* images_to_keep absent: None is written -1 (a count is never negative)
None == -1

\* line 321: `%` with min_removal_threshold = 0 is a ZeroDivisionError; the
\* test for None on line 297 comes before it
FilterRaises(images_to_keep, min_removal_threshold) ==
    images_to_keep # None /\ min_removal_threshold = 0

\* mutant: one chunk less than the excess holds is removed
_maybe_filter_KeepsChunk(msgs, images_to_keep, min_removal_threshold) ==
    IF images_to_keep = None THEN msgs
    ELSE LET excess == TotalImages(msgs) - images_to_keep
             images_to_remove == excess - (excess % min_removal_threshold)
                                    - min_removal_threshold
         IN  IF images_to_remove > 0 THEN FilterMessages(msgs, images_to_remove)
             ELSE msgs

\* mutant: the removal is not rounded down to a multiple of the threshold
_maybe_filter_NoChunks(msgs, images_to_keep, min_removal_threshold) ==
    IF images_to_keep = None THEN msgs
    ELSE LET images_to_remove == TotalImages(msgs) - images_to_keep
         IN  IF images_to_remove > 0 THEN FilterMessages(msgs, images_to_remove)
             ELSE msgs

\* the history after the call, for a call that does not raise
_maybe_filter_to_n_most_recent_images(msgs, images_to_keep, min_removal_threshold) ==
    IF images_to_keep = None THEN msgs
    ELSE LET total_images == TotalImages(msgs)
             excess == total_images - images_to_keep
             images_to_remove == excess - (excess % min_removal_threshold)
         IN  IF images_to_remove > 0 THEN FilterMessages(msgs, images_to_remove)
             ELSE msgs

\* mutant: the limit is applied whatever the provider
RequestHistory_AnyProvider(msgs, prov, only_n) ==
    LET cached == IF prov = "anthropic" THEN _inject_prompt_caching(msgs) ELSE msgs
    IN  IF only_n # 0 /\ only_n # None
        THEN _maybe_filter_to_n_most_recent_images(cached, only_n, only_n)
        ELSE cached

\* the history the request is built from: lines 252-259 of the loop
RequestHistory(msgs, prov, only_n) ==
    LET cached == IF prov = "anthropic" THEN _inject_prompt_caching(msgs) ELSE msgs
        image_limit == IF prov = "anthropic" THEN 0 ELSE only_n
    IN  IF image_limit # 0 /\ image_limit # None
        THEN _maybe_filter_to_n_most_recent_images(cached, image_limit, image_limit)
        ELSE cached

(***************************************************************************)
(* The notification sinks and the error handler.                            *)
(***************************************************************************)
TransportErrors == {"APIStatusError", "APIError", "Exception"}

\* mutant: the sink is called without the error
handle_error_DropsError(error) ==
    [request |-> "None", response |-> "None", error |-> "None"]

\* handle_error: the arguments api_response_callback is invoked with
handle_error(error) ==
    IF error \in {"APIStatusError", "RateLimitError", "APIResponseValidationError"}
    THEN [request |-> "error.request", response |-> "error.response", error |-> error]
    ELSE IF error = "APIError"
         THEN [request |-> "error.request", response |-> "error.body", error |-> error]
         ELSE [request |-> "None", response |-> "None", error |-> error]

\* _render_error of streamlit.py: the branch taken and the retry-after shown
_render_error(error, retry_after) ==
    IF error = "RateLimitError"
    THEN [branch |-> "rate_limit", retry_after |-> retry_after]
    ELSE [branch |-> "traceback", retry_after |-> ""]

\* _api_response_callback: operative.py calls _render_error, which that module
\* does not define, whenever an error is passed; streamlit.py defines it
ApiSinkRaises(ep, error) == ep = "operative" /\ error # "None"

\* mutant: the loop hands back a copy of the list
ReturnValue_Copy(obj) == obj + 1

\* `return messages`: the object handed back to st.session_state.messages
ReturnValue(obj) == obj

Running == {"BUILD_REQUEST", "STREAMING", "INTERPRETING", "DISPATCHING_TOOLS"}

\* `async with client.beta.messages.stream(**params) as stream`: entering the
\* block opens an exchange
OpenExchange(n) == n + 1

\* mutant: the stream is entered without `async with` and never closed
CloseExchange_Leak(n) == n

\* leaving the `async with` block, at its end or by an exception, closes it
CloseExchange(n) == n - 1

\* the except clause of the loop: handle_error(e), then return messages; an
\* exception of the sink leaves the call through the except clause, and
\* track_sampling_loop resets the flag on a normal exit only
ExceptClause(error, at) ==
    /\ api_calls' = Append(api_calls, handle_error(error))
    /\ fail_at' = at
    /\ caught' = error
    /\ IF ApiSinkRaises(entrypoint, error)
       THEN /\ pc' = "RAISED"
            /\ UNCHANGED <<in_sampling_loop, messages_obj>>
       ELSE /\ pc' = "FAILED"
            /\ in_sampling_loop' = FALSE
            /\ messages_obj' = ReturnValue(messages_obj)

(***************************************************************************)
(* The user-input handler of the UI.                                        *)
(***************************************************************************)
\* mutant: only the first tool_use of the last message gets a result
maybe_add_interruption_blocks_Always(flag, msgs) ==
    IF msgs = <<>> THEN <<>>
    ELSE LET prev_tool_ids == ToolUseIds(msgs[Len(msgs)].content)
         IN  [i \in 1..Len(prev_tool_ids) |->
                 BetaToolResultBlockParam(prev_tool_ids[i], FALSE,
                                          INTERRUPT_TOOL_ERROR, <<>>, TRUE)]
             \o <<BetaTextBlockParam(INTERRUPT_TEXT)>>

maybe_add_interruption_blocks_FirstOnly(flag, msgs) ==
    IF ~flag THEN <<>>
    ELSE LET prev_tool_ids == ToolUseIds(msgs[Len(msgs)].content)
         IN  [i \in 1..(IF Len(prev_tool_ids) > 0 THEN 1 ELSE 0) |->
                 BetaToolResultBlockParam(prev_tool_ids[i], FALSE,
                                          INTERRUPT_TOOL_ERROR, <<>>, TRUE)]
             \o <<BetaTextBlockParam(INTERRUPT_TEXT)>>

\* mutant: the interruption text block is left out
maybe_add_interruption_blocks_NoText(flag, msgs) ==
    IF ~flag THEN <<>>
    ELSE LET prev_tool_ids == ToolUseIds(msgs[Len(msgs)].content)
         IN  [i \in 1..Len(prev_tool_ids) |->
                 BetaToolResultBlockParam(prev_tool_ids[i], FALSE,
                                          INTERRUPT_TOOL_ERROR, <<>>, TRUE)]

\* mutant: the flag is never found set
maybe_add_interruption_blocks_Never(flag, msgs) == <<>>

\* mutant: the test is on the history being non-empty, not on the flag
maybe_add_interruption_blocks_NoFlag(flag, msgs) ==
    IF msgs = <<>> THEN <<>>
    ELSE LET prev_tool_ids == ToolUseIds(msgs[Len(msgs)].content)
         IN  [i \in 1..Len(prev_tool_ids) |->
                 BetaToolResultBlockParam(prev_tool_ids[i], FALSE,
                                          INTERRUPT_TOOL_ERROR, <<>>, TRUE)]
             \o <<BetaTextBlockParam(INTERRUPT_TEXT)>>

maybe_add_interruption_blocks(flag, msgs) ==
    IF ~flag THEN <<>>
    ELSE LET prev_tool_ids == ToolUseIds(msgs[Len(msgs)].content)
         IN  [i \in 1..Len(prev_tool_ids) |->
                 BetaToolResultBlockParam(prev_tool_ids[i], FALSE,
                                          INTERRUPT_TOOL_ERROR, <<>>, TRUE)]
             \o <<BetaTextBlockParam(INTERRUPT_TEXT)>>

\* the user turn main appends for a chat input
UserTurn(flag, msgs, user_input, uid) ==
    Turn("user", maybe_add_interruption_blocks(flag, msgs)
                 \o <<BetaTextBlockParam(user_input)>>, TRUE, uid)

\* mutant: main starts the loop on any non-empty history
LastIsUser_AnyRole(ep, msgs) == msgs # <<>>

\* the test on the last message that main makes before it starts the loop:
\* operative.py compares with !=, streamlit.py with `is not Sender.USER`
LastIsUser(ep, msgs) ==
    /\ msgs # <<>>
    /\ msgs[Len(msgs)].role = "user"
    /\ (ep = "streamlit" => msgs[Len(msgs)].sender_enum)

\* one run of the Streamlit script: auth check, chat input, start of the loop.
\* A run of the script ends the run before it, so a loop still in flight is
\* abandoned where it stands (its locals are gone), with in_sampling_loop left
\* as it is.
Main(user_input, auth_ok) ==
    LET abandoned == IF pc \in Running THEN "ABORTED" ELSE pc
    IN
    IF ~auth_validated /\ ~auth_ok
    THEN /\ pc' = abandoned
         /\ running' = {}
         /\ open_exchanges' = 0
         /\ UNCHANGED <<messages, messages_obj, tools, in_sampling_loop, auth_validated,
                        provider, only_n_most_recent_images, entrypoint, full_response,
                        response_params, k, tool_results, next_id, next_uid, runs,
                        api_calls, dispatch_log, iter_start, fail_at, caught>>
         /\ UNCHANGED fn_vars
    ELSE LET typed == user_input # NoInput
             msgs1 == IF typed
                      THEN Append(messages,
                                  UserTurn(in_sampling_loop, messages, user_input, next_uid))
                      ELSE messages
             start == LastIsUser(entrypoint, msgs1)
         IN  /\ typed /\ in_sampling_loop => messages # <<>>
             /\ start => runs < MaxRuns
             /\ auth_validated' = TRUE
             /\ messages' = msgs1
             /\ next_uid' = IF typed THEN next_uid + 1 ELSE next_uid
             /\ tools' = IF typed /\ in_sampling_loop
                         THEN LET ids == ToolUseIds(messages[Len(messages)].content)
                              IN  tools \cup {ids[i] : i \in 1..Len(ids)}
                         ELSE tools
             /\ IF start
                THEN /\ pc' = "BUILD_REQUEST"
                     /\ in_sampling_loop' = TRUE
                     /\ runs' = runs + 1
                     /\ api_calls' = <<>>
                     /\ dispatch_log' = <<>>
                     /\ fail_at' = "none"
                     /\ caught' = "None"
                     /\ iter_start' = msgs1
                     /\ full_response' = NoMessage
                     /\ response_params' = <<>>
                     /\ k' = 1
                     /\ tool_results' = <<>>
                ELSE /\ pc' = abandoned
                     /\ IF pc \in Running
                        THEN /\ full_response' = NoMessage
                             /\ response_params' = <<>>
                             /\ k' = 1
                             /\ tool_results' = <<>>
                        ELSE UNCHANGED <<full_response, response_params, k,
                                         tool_results>>
                     /\ UNCHANGED <<in_sampling_loop, runs, api_calls, dispatch_log,
                                    fail_at, caught, iter_start>>
             /\ running' = {}
             /\ open_exchanges' = 0
             /\ UNCHANGED <<messages_obj, provider, only_n_most_recent_images,
                            entrypoint, next_id>>
             /\ UNCHANGED fn_vars

\* the Reset button: st.session_state.clear() and setup_state() put every
\* field back to its value after construction (the provider to the one of the
\* environment, the image limit to 1), history and tool-result map together;
\* the script run of the button then goes on with the auth check and finds
\* an empty history, and the loop the run before it was in is gone
Reset(auth_ok) ==
    /\ messages' = <<>>
    /\ tools' = {}
    /\ in_sampling_loop' = FALSE
    /\ only_n_most_recent_images' = 1
    /\ auth_validated' = auth_ok
    /\ pc' = "IDLE"
    /\ messages_obj' = 0
    /\ full_response' = NoMessage
    /\ response_params' = <<>>
    /\ k' = 1
    /\ tool_results' = <<>>
    /\ next_id' = 1
    /\ next_uid' = 1
    /\ runs' = 0
    /\ api_calls' = <<>>
    /\ dispatch_log' = <<>>
    /\ iter_start' = <<>>
    /\ fail_at' = "none"
    /\ caught' = "None"
    /\ running' = {}
    /\ open_exchanges' = 0
    /\ UNCHANGED <<provider, entrypoint>>
    /\ UNCHANGED fn_vars

(***************************************************************************)
(* The iteration of sampling_loop.                                          *)
(***************************************************************************)
\* lines 245-262: registry, client, cache annotation, image retention, request.
\* None of them is inside the try block.
BuildRequest(fault) ==
    /\ pc = "BUILD_REQUEST"
    /\ iter_start' = messages
    /\ IF fault \/ (provider = "anthropic" /\ InjectRaises(messages))
       THEN /\ pc' = "RAISED"
            /\ fail_at' = "BUILD_REQUEST"
            /\ UNCHANGED <<messages, open_exchanges>>
       ELSE /\ pc' = "STREAMING"
            /\ messages' = RequestHistory(messages, provider, only_n_most_recent_images)
            /\ open_exchanges' = OpenExchange(open_exchanges)
            /\ UNCHANGED fail_at
    /\ UNCHANGED <<messages_obj, tools, in_sampling_loop, auth_validated, provider,
                   only_n_most_recent_images, entrypoint, full_response,
                   response_params, k, tool_results, next_id, next_uid, runs,
                   api_calls, dispatch_log, caught, running>>
    /\ UNCHANGED fn_vars

\* stream_response ran to the end of the stream: full_response is the message
\* of the last message_start/message_stop event, or None when there was none
StreamCompletes(shape, has_message) ==
    /\ pc = "STREAMING"
    /\ has_message => next_id + ToolUseCount(shape) - 1 <= MaxIds
    /\ full_response' = IF has_message THEN MakeResponse(shape, next_id) ELSE NoMessage
    /\ next_id' = IF has_message THEN next_id + ToolUseCount(shape) ELSE next_id
    /\ pc' = "INTERPRETING"
    /\ open_exchanges' = CloseExchange(open_exchanges)
    /\ UNCHANGED <<messages, messages_obj, tools, in_sampling_loop, auth_validated,
                   provider, only_n_most_recent_images, entrypoint, response_params,
                   k, tool_results, next_uid, runs, api_calls, dispatch_log,
                   iter_start, fail_at, caught, running>>
    /\ UNCHANGED fn_vars

\* the transport, or output_callback called from handle_stream_event, raises
StreamFails(error) ==
    /\ pc = "STREAMING"
    /\ ExceptClause(error, "STREAMING")
    /\ open_exchanges' = CloseExchange(open_exchanges)
    /\ UNCHANGED <<messages, tools, auth_validated, provider,
                   only_n_most_recent_images, entrypoint, full_response,
                   response_params, k, tool_results, next_id, next_uid, runs,
                   dispatch_log, iter_start, running>>
    /\ UNCHANGED fn_vars

\* lines 269-270: _response_to_params(full_response), messages.append(...);
\* response.content of None is an AttributeError
Interpret ==
    /\ pc = "INTERPRETING"
    /\ IF ~full_response.present
       THEN /\ ExceptClause("Exception", "INTERPRETING")
            /\ UNCHANGED <<messages, next_uid, response_params, k, tool_results,
                           dispatch_log>>
       ELSE LET params == _response_to_params(full_response.content)
            IN  /\ response_params' = params
                /\ messages' = Append(messages, Turn("assistant", params, FALSE, next_uid))
                /\ next_uid' = next_uid + 1
                /\ k' = 1
                /\ tool_results' = <<>>
                /\ dispatch_log' = <<>>
                /\ pc' = "DISPATCHING_TOOLS"
                /\ UNCHANGED <<in_sampling_loop, messages_obj, api_calls, fail_at,
                               caught>>
    /\ UNCHANGED <<tools, auth_validated, provider, only_n_most_recent_images,
                   entrypoint, full_response, next_id, runs, iter_start, running>>
    /\ UNCHANGED open_exchanges
    /\ UNCHANGED fn_vars

\* mutant: the sink is not told which tool_use block the result is for
tool_output_callback_NoId(tool_id, outcome, position, sink_raised) ==
    [id |-> 0, outcome |-> outcome, position |-> position,
     sink_raised |-> sink_raised]

\* tool_output_callback(result, content_block["id"]): the invocation of the tool
\* sink, as it is recorded for the batch
tool_output_callback(tool_id, outcome, position, sink_raised) ==
    [id |-> tool_id, outcome |-> outcome, position |-> position,
     sink_raised |-> sink_raised]

\* mutant: the blocks are processed from the end of the turn
NextToolUse_Last(params, i) ==
    LET later == {n \in i..Len(params) : params[n].type = "tool_use"}
    IN  IF later = {} THEN Len(params) + 1
        ELSE CHOOSE n \in later : \A m \in later : m <= n

\* process_tools: the index of the first tool_use block at or after position i
\* (execute_tool returns None for the blocks before it), Len + 1 when none is left
RECURSIVE NextToolUse(_, _)
NextToolUse(params, i) ==
    IF i > Len(params) THEN i
    ELSE IF params[i].type = "tool_use" THEN i ELSE NextToolUse(params, i + 1)

\* `await execute_tool(block)` in the for loop of process_tools: the loop body
\* is entered for a block only when the call for the block before has returned
Awaited(in_progress) == in_progress = {}

\* execute_tool up to its suspension in `await tool_collection.run(...)`: the
\* run of the next tool_use block is started
StartTool ==
    /\ pc = "DISPATCHING_TOOLS"
    /\ Awaited(running)
    /\ NextToolUse(response_params, k) <= Len(response_params)
    /\ running' = running \cup {NextToolUse(response_params, k)}
    /\ UNCHANGED <<messages, messages_obj, tools, in_sampling_loop, auth_validated,
                   provider, only_n_most_recent_images, entrypoint, pc, full_response,
                   response_params, k, tool_results, next_id, next_uid, runs,
                   api_calls, dispatch_log, iter_start, fail_at, caught>>
    /\ UNCHANGED open_exchanges
    /\ UNCHANGED fn_vars

\* mutant: the tool sink renders the output without storing it
StoreToolOutput_NoWrite(tool_state, tool_id) == tool_state

\* _tool_output_callback: tool_state[tool_id] = tool_output, before it renders
StoreToolOutput(tool_state, tool_id) == tool_state \cup {tool_id}

\* execute_tool from the completion of the run: tool sink, result block
ExecuteTool(outcome, sink_raises) ==
    /\ pc = "DISPATCHING_TOOLS"
    /\ running # {}
    /\ running' = {}
    /\ NextToolUse(response_params, k) <= Len(response_params)
    /\ LET i == NextToolUse(response_params, k)
           content_block == response_params[i]
           result == ToolCollectionRun(outcome)
       IN  /\ dispatch_log' = Append(dispatch_log,
                  tool_output_callback(content_block.id, outcome, i, sink_raises))
           /\ tools' = StoreToolOutput(tools, content_block.id)
           /\ IF sink_raises
              THEN /\ ExceptClause("Exception", "DISPATCHING_TOOLS")
                   /\ UNCHANGED <<k, tool_results>>
              ELSE /\ tool_results' = Append(tool_results,
                          _make_api_tool_result(result, content_block.id))
                   /\ k' = i + 1
                   /\ UNCHANGED <<pc, in_sampling_loop, messages_obj, api_calls,
                                  fail_at, caught>>
    /\ UNCHANGED <<messages, auth_validated, provider, only_n_most_recent_images,
                   entrypoint, full_response, response_params, next_id, next_uid,
                   runs, iter_start>>
    /\ UNCHANGED open_exchanges
    /\ UNCHANGED fn_vars

\* mutant: the loop never takes the `if not tool_results` exit
NoToolResults_Never(results) == FALSE

\* mutant: the loop also returns when a result signals an error
NoToolResults_OnError(results) ==
    results = <<>> \/ \E n \in 1..Len(results) : results[n].is_error

\* mutant: the loop returns whatever process_tools collected
NoToolResults_Always(results) == TRUE

\* `if not tool_results`
NoToolResults(results) == results = <<>>

\* lines 275-279: process_tools is through; return, or append the results
FinishDispatch ==
    /\ pc = "DISPATCHING_TOOLS"
    /\ running = {}
    /\ NextToolUse(response_params, k) > Len(response_params)
    /\ IF NoToolResults(tool_results)
       THEN /\ pc' = "TERMINATED"
            /\ in_sampling_loop' = FALSE
            /\ messages_obj' = ReturnValue(messages_obj)
            /\ UNCHANGED <<messages, next_uid>>
       ELSE /\ messages' = Append(messages, Turn("user", tool_results, FALSE, next_uid))
            /\ next_uid' = next_uid + 1
            /\ pc' = "BUILD_REQUEST"
            /\ UNCHANGED <<in_sampling_loop, messages_obj>>
    /\ UNCHANGED <<tools, auth_validated, provider, only_n_most_recent_images,
                   entrypoint, full_response, response_params, k, tool_results,
                   next_id, runs, api_calls, dispatch_log, iter_start, fail_at, caught,
                   running>>
    /\ UNCHANGED open_exchanges
    /\ UNCHANGED fn_vars

(***************************************************************************)
(* The session.                                                             *)
(***************************************************************************)
Init ==
    /\ messages = <<>>
    /\ messages_obj = 0
    /\ tools = {}
    /\ in_sampling_loop = FALSE
    /\ auth_validated = FALSE
    /\ provider \in Providers
    /\ only_n_most_recent_images \in ImageLimits
    /\ provider = "anthropic" => only_n_most_recent_images = 1
    /\ entrypoint \in Entrypoints
    /\ pc = "IDLE"
    /\ full_response = NoMessage
    /\ response_params = <<>>
    /\ k = 1
    /\ tool_results = <<>>
    /\ next_id = 1
    /\ next_uid = 1
    /\ runs = 0
    /\ api_calls = <<>>
    /\ dispatch_log = <<>>
    /\ iter_start = <<>>
    /\ fail_at = "none"
    /\ caught = "None"
    /\ running = {}
    /\ open_exchanges = 0
    /\ fn = "session"
    /\ arg_images_to_keep = 0
    /\ arg_min_removal_threshold = 1
    /\ fn_applied = <<>>
    /\ fn_before = <<>>
    /\ fn_raised = "None"
    /\ fn_arg = <<>>
    /\ fn_out = <<>>
    /\ stream = <<>>
    /\ consumed = <<>>
    /\ output_calls = <<>>

Next ==
    \/ \E user_input \in UserTexts \cup {NoInput}, auth_ok \in BOOLEAN :
           Main(user_input, auth_ok)
    \/ \E fault \in BOOLEAN : BuildRequest(fault)
    \/ \E shape \in ResponseShapes, has_message \in BOOLEAN :
           StreamCompletes(shape, has_message)
    \/ \E error \in TransportErrors : StreamFails(error)
    \/ Interpret
    \/ StartTool
    \/ \E outcome \in ToolOutcomes, sink_raises \in BOOLEAN :
           ExecuteTool(outcome, sink_raises)
    \/ FinishDispatch
    \/ \E auth_ok \in BOOLEAN : Reset(auth_ok)

Spec == Init /\ [][Next]_vars

(***************************************************************************)
(* The image retention policy and the cache annotator, called on their own. *)
(***************************************************************************)
MaxTurns == 3
MaxCacheTurns == 5
MaxKeep == 2
MaxThreshold == 2
MaxCalls == 2
MaxIterations == 3
MaxNewImages == 3

\* the turns the histories of the retention policy are made of: an assistant
\* turn with text and tool_use; tool-result turns as _make_api_tool_result
\* builds them (with images, and with a plain string as content); a user turn
\* with text and an image that is not inside a tool_result
RetentionTurns ==
    { [role |-> "assistant",
       content |-> <<BetaTextBlockParam("hello"), BetaToolUseBlockParam(1)>>],
      [role |-> "user",
       content |-> <<_make_api_tool_result(ToolResult("out", "", "png", ""), 1)>>],
      [role |-> "user",
       content |->
          <<[_make_api_tool_result(ToolResult("", "", "png", ""), 1) EXCEPT
                !.content = <<ImageSubBlock("png1"), TextSubBlock("out"),
                              ImageSubBlock("png2")>>],
            _make_api_tool_result(ToolResult("", "", "png3", ""), 2)>>],
      [role |-> "user",
       content |->
          <<_make_api_tool_result(ToolResult("out", "tool error", "png", ""), 1),
            Block("image", 0, "png")>>] }

\* the histories a caller hands to the policy
RetentionHistories ==
    UNION { { [i \in 1..n |-> Turn(t[i].role, t[i].content, FALSE, i)] :
                t \in [1..n -> RetentionTurns] } : n \in 0..MaxTurns }

KeepArgs == {None} \cup 0..MaxKeep

ThresholdArgs == 0..MaxThreshold

\* the turns the producers of the history append between two requests
AppendedContents ==
    [ text |-> <<BetaTextBlockParam("stop")>>,
      results |-> <<_make_api_tool_result(ToolResult("", "tool error", "", ""), 1),
                    BetaTextBlockParam("stop")>>,
      assistant |-> <<BetaTextBlockParam("hello")>>,
      string |-> StrContent("Test message") ]

\* the results a tool can hand back: each field is empty (None) or set
ToolResultArgs ==
    {ToolResult(output, error, base64_image, system) :
        output \in {"", "out"}, error \in {"", "tool error"},
        base64_image \in {"", "png"}, system \in {"", "note"}}

\* the exceptions the except clause can hand to handle_error
ErrorClasses == TransportErrors \cup {"RateLimitError"}

\* class APIProvider
APIProvider == {"anthropic", "bedrock", "vertex"}

PROVIDER_TO_DEFAULT_MODEL_NAME ==
    [p \in APIProvider |->
        CASE p = "anthropic" -> "claude-3-7-sonnet-20250219"
          [] p = "bedrock" -> "anthropic.claude-3-5-sonnet-20241022-v2:0"
          [] p = "vertex" -> "claude-3-5-sonnet-v2@20241022"]

\* the model names of the Model text input: the defaults and one typed in
ModelNames ==
    {PROVIDER_TO_DEFAULT_MODEL_NAME[p] : p \in APIProvider} \cup {"claude-3-opus"}

\* `"3-7" in model`
Has37(m) == m = "claude-3-7-sonnet-20250219"

SONNET_3_5_NEW ==
    [tool_version |-> "computer_use_20241022", max_output_tokens |-> 8192,
     default_output_tokens |-> 4096, has_thinking |-> FALSE]

\* default_output_tokens differs between the two entrypoints
SONNET_3_7(ep) ==
    [tool_version |-> "computer_use_20250124", max_output_tokens |-> 128000,
     default_output_tokens |-> IF ep = "operative" THEN 128000 ELSE 16384,
     has_thinking |-> TRUE]

\* MODEL_TO_MODEL_CONF.get(model, SONNET_3_5_NEW), after the "3-7" test
ModelConfOf(ep, m) == IF Has37(m) THEN SONNET_3_7(ep) ELSE SONNET_3_5_NEW

\* the model fields of the session state after _reset_model_conf
_reset_model_conf(ep, m) ==
    LET model_conf == ModelConfOf(ep, m)
    IN  [model |-> m,
         tool_version |-> model_conf.tool_version,
         has_thinking |-> model_conf.has_thinking,
         output_tokens |-> model_conf.default_output_tokens,
         max_output_tokens |-> model_conf.max_output_tokens,
         thinking_budget |-> model_conf.default_output_tokens \div 2]

\* _reset_model reads st.session_state.provider
_reset_model(ep, prov) == _reset_model_conf(ep, PROVIDER_TO_DEFAULT_MODEL_NAME[prov])

\* the session is idle while a function is called on its own
FnSession ==
    /\ messages_obj = 0
    /\ tools = {}
    /\ in_sampling_loop = FALSE
    /\ pc = "IDLE"
    /\ full_response = NoMessage
    /\ response_params = <<>>
    /\ k = 1
    /\ tool_results = <<>>
    /\ next_id = 1
    /\ next_uid = 1
    /\ runs = 0
    /\ api_calls = <<>>
    /\ dispatch_log = <<>>
    /\ iter_start = <<>>
    /\ fail_at = "none"
    /\ caught = "None"
    /\ running = {}
    /\ open_exchanges = 0

FnInit ==
    /\ FnSession
    /\ fn_applied = <<>>
    /\ fn_before = <<>>
    /\ fn_raised = "None"
    /\ fn_out = <<>>
    /\ stream = <<>>
    /\ consumed = <<>>
    /\ output_calls = <<>>
    /\ \/ /\ fn = "retention"
          /\ messages \in RetentionHistories
          /\ arg_images_to_keep \in KeepArgs
          /\ arg_min_removal_threshold \in ThresholdArgs
          /\ entrypoint = "streamlit"
          /\ provider = "anthropic"
          /\ only_n_most_recent_images = 1
          /\ fn_arg = <<>>
       \/ /\ fn = "caching"
          /\ messages = <<>>
          /\ arg_images_to_keep = None
          /\ arg_min_removal_threshold = 1
          /\ entrypoint = "streamlit"
          /\ provider = "anthropic"
          /\ only_n_most_recent_images = 1
          /\ fn_arg = <<>>
       \/ /\ fn = "tool_result"
          /\ messages = <<>>
          /\ arg_images_to_keep = None
          /\ arg_min_removal_threshold = 1
          /\ entrypoint = "streamlit"
          /\ provider = "anthropic"
          /\ only_n_most_recent_images = 1
          /\ fn_arg \in [result : ToolResultArgs, tool_use_id : 1..MaxIds]
       \/ /\ fn = "error_sink"
          /\ messages = <<>>
          /\ arg_images_to_keep = None
          /\ arg_min_removal_threshold = 1
          /\ entrypoint \in Entrypoints
          /\ provider = "anthropic"
          /\ only_n_most_recent_images = 1
          /\ fn_arg \in [error : ErrorClasses, retry_after : {"", "30"}]
       \/ /\ fn = "request"
          /\ messages = <<Turn("user", <<BetaTextBlockParam("hi")>>, TRUE, 1)>>
          /\ arg_images_to_keep = None
          /\ arg_min_removal_threshold = 1
          /\ entrypoint = "streamlit"
          /\ provider \in Providers
          /\ only_n_most_recent_images \in KeepArgs
          /\ fn_arg = <<>>
       \/ /\ fn = "provider"
          /\ messages = <<>>
          /\ arg_images_to_keep = None
          /\ arg_min_removal_threshold = 1
          /\ entrypoint \in Entrypoints
          /\ provider \in APIProvider
          /\ only_n_most_recent_images = 1
          /\ fn_arg \in {_reset_model_conf(entrypoint, m) : m \in ModelNames}
    /\ auth_validated \in IF fn = "provider" THEN BOOLEAN ELSE {FALSE}

\* one call _maybe_filter_to_n_most_recent_images(messages, images_to_keep,
\* min_removal_threshold); the history is changed in place
ApplyImageRetention ==
    /\ fn = "retention"
    /\ fn_raised = "None"
    /\ Len(fn_applied) < MaxCalls
    /\ fn_applied' = Append(fn_applied, "_maybe_filter_to_n_most_recent_images")
    /\ fn_before' = Append(fn_before, messages)
    /\ IF FilterRaises(arg_images_to_keep, arg_min_removal_threshold)
       THEN /\ fn_raised' = "ZeroDivisionError"
            /\ UNCHANGED messages
       ELSE /\ messages' = _maybe_filter_to_n_most_recent_images(
                               messages, arg_images_to_keep, arg_min_removal_threshold)
            /\ UNCHANGED fn_raised
    /\ UNCHANGED <<fn, arg_images_to_keep, arg_min_removal_threshold, fn_arg, fn_out>>
    /\ UNCHANGED stream_vars
    /\ UNCHANGED session_vars

\* one call _inject_prompt_caching(messages); the history is changed in place
ApplyPromptCaching ==
    /\ fn = "caching"
    /\ Len(fn_applied) < MaxCalls
    /\ ~InjectRaises(messages)
    /\ fn_applied' = Append(fn_applied, "_inject_prompt_caching")
    /\ fn_before' = Append(fn_before, messages)
    /\ messages' = _inject_prompt_caching(messages)
    /\ UNCHANGED <<fn, arg_images_to_keep, arg_min_removal_threshold, fn_raised,
                   fn_arg, fn_out>>
    /\ UNCHANGED stream_vars
    /\ UNCHANGED session_vars

\* one call _make_api_tool_result(result, tool_use_id)
ApplyMakeApiToolResult ==
    /\ fn = "tool_result"
    /\ fn_applied = <<>>
    /\ fn_applied' = <<"_make_api_tool_result">>
    /\ fn_out' = _make_api_tool_result(fn_arg.result, fn_arg.tool_use_id)
    /\ UNCHANGED <<messages, fn, arg_images_to_keep, arg_min_removal_threshold,
                   fn_before, fn_raised, fn_arg>>
    /\ UNCHANGED stream_vars
    /\ UNCHANGED session_vars

\* handle_error(error) with the sink of the entrypoint: _api_response_callback
\* renders the error it is given
ApplyErrorSink ==
    /\ fn = "error_sink"
    /\ fn_applied = <<>>
    /\ fn_applied' = <<"handle_error">>
    /\ api_calls' = Append(api_calls, handle_error(fn_arg.error))
    /\ IF ApiSinkRaises(entrypoint, fn_arg.error)
       THEN /\ fn_raised' = "NameError"
            /\ UNCHANGED fn_out
       ELSE /\ fn_out' = _render_error(fn_arg.error, fn_arg.retry_after)
            /\ UNCHANGED fn_raised
    /\ UNCHANGED <<messages, fn, arg_images_to_keep, arg_min_removal_threshold,
                   fn_before, fn_arg>>
    /\ UNCHANGED open_exchanges
    /\ UNCHANGED stream_vars
    /\ UNCHANGED <<messages_obj, tools, in_sampling_loop, auth_validated, provider,
                   only_n_most_recent_images, entrypoint, pc, full_response,
                   response_params, k, tool_results, next_id, next_uid, runs,
                   dispatch_log, iter_start, fail_at, caught, running>>

\* the on_change handler of the provider radio: _reset_model() runs before
\* st.session_state.provider is assigned
ApplyResetApiProvider(provider_radio) ==
    /\ fn = "provider"
    /\ Len(fn_applied) < MaxCalls
    /\ fn_applied' = Append(fn_applied, provider_radio)
    /\ fn_before' = Append(fn_before, provider)
    /\ IF provider_radio # provider
       THEN /\ fn_arg' = _reset_model(entrypoint, provider)
            /\ provider' = provider_radio
            /\ auth_validated' = FALSE
       ELSE UNCHANGED <<fn_arg, provider, auth_validated>>
    /\ UNCHANGED <<messages, fn, arg_images_to_keep, arg_min_removal_threshold,
                   fn_raised, fn_out>>
    /\ UNCHANGED open_exchanges
    /\ UNCHANGED stream_vars
    /\ UNCHANGED <<messages_obj, tools, in_sampling_loop, only_n_most_recent_images,
                   entrypoint, pc, full_response, response_params, k, tool_results,
                   next_id, next_uid, runs, api_calls, dispatch_log, iter_start,
                   fail_at, caught, running>>

\* lines 252-259 of one iteration: the history is prepared for the request
ApplyRequestHistory ==
    /\ fn = "request"
    /\ Len(fn_applied) < 2 * MaxIterations
    /\ IF fn_applied = <<>> THEN TRUE ELSE fn_applied[Len(fn_applied)] = "append"
    /\ fn_applied' = Append(fn_applied, "request")
    /\ fn_before' = Append(fn_before, messages)
    /\ messages' = RequestHistory(messages, provider, only_n_most_recent_images)
    /\ UNCHANGED <<fn, arg_images_to_keep, arg_min_removal_threshold, fn_raised,
                   fn_arg, fn_out>>
    /\ UNCHANGED stream_vars
    /\ UNCHANGED session_vars

\* the tool-result turn of an iteration: one tool_result block per tool that
\* ran, its content the output and the screenshots the tool returned
ResultBlockWithImages(n, id) ==
    [_make_api_tool_result(ToolResult("out", "", "png", ""), id) EXCEPT
        !.content = <<TextSubBlock("out")>> \o [i \in 1..n |-> ImageSubBlock("png")]]

\* lines 266-279 of one iteration, as far as the history goes: the assistant
\* turn and the tool-result turn are appended
AppendToolResultTurn(images) ==
    /\ fn = "request"
    /\ IF fn_applied = <<>> THEN FALSE ELSE fn_applied[Len(fn_applied)] = "request"
    /\ Len(fn_applied) < 2 * MaxIterations - 1
    /\ fn_applied' = Append(fn_applied, "append")
    /\ fn_before' = Append(fn_before, messages)
    /\ messages' = messages \o
           << Turn("assistant", <<BetaToolUseBlockParam(1)>>, FALSE, Len(messages) + 1),
              Turn("user", <<ResultBlockWithImages(images, 1)>>, FALSE,
                   Len(messages) + 2) >>
    /\ UNCHANGED <<fn, arg_images_to_keep, arg_min_removal_threshold, fn_raised,
                   fn_arg, fn_out>>
    /\ UNCHANGED stream_vars
    /\ UNCHANGED session_vars

\* a producer of the history appends a turn without the annotator being called
\* in between: the user-input handler (its run replaced by the next input
\* before a request is built, or failing before line 252), or a loop iteration
\* that does not annotate, the provider not being ANTHROPIC
AppendTurn(kind) ==
    /\ fn = "caching"
    /\ Len(messages) < MaxCacheTurns
    /\ messages' = Append(messages,
                          Turn(IF kind = "assistant" THEN "assistant" ELSE "user",
                               AppendedContents[kind], kind = "text",
                               Len(messages) + 1))
    /\ UNCHANGED fn_vars
    /\ UNCHANGED session_vars

FnNext ==
    \/ ApplyImageRetention
    \/ ApplyPromptCaching
    \/ ApplyMakeApiToolResult
    \/ ApplyErrorSink
    \/ ApplyRequestHistory
    \/ \E provider_radio \in APIProvider : ApplyResetApiProvider(provider_radio)
    \/ \E images \in 0..MaxNewImages : AppendToolResultTurn(images)
    \/ \E kind \in DOMAIN AppendedContents : AppendTurn(kind)

FunctionSpec == FnInit /\ [][FnNext]_vars

\* the steps of the sampling_loop coroutine
LoopNext ==
    \/ \E fault \in BOOLEAN : BuildRequest(fault)
    \/ \E shape \in ResponseShapes, has_message \in BOOLEAN :
           StreamCompletes(shape, has_message)
    \/ \E error \in TransportErrors : StreamFails(error)
    \/ Interpret
    \/ StartTool
    \/ \E outcome \in ToolOutcomes, sink_raises \in BOOLEAN :
           ExecuteTool(outcome, sink_raises)
    \/ FinishDispatch

\* the session when every provider exchange and every tool run completes: the
\* event loop keeps running the coroutine while it has a step to take
LiveSpec == Init /\ [][Next]_vars /\ WF_vars(LoopNext)

(***************************************************************************)
(* One streamed exchange, event by event (stream_response).                 *)
(***************************************************************************)
MaxEvents == 3

\* a streaming event; thinking, text, content_block and message are the
\* attributes the handlers read
Event(type, thinking, text, content_block, message, has_message) ==
    [type |-> type, thinking |-> thinking, text |-> text,
     content_block |-> content_block, message |-> message,
     has_message |-> has_message]

\* event.content_block of a content_block_start event; input "" is the empty
\* input, has_input is hasattr(content_block, "input")
ContentBlock(type, name, input, has_input) ==
    [type |-> type, name |-> name, input |-> input, has_input |-> has_input]

NoBlock == ContentBlock("none", "", "", FALSE)

\* the message a message_start event carries: no content yet
StartMessage == BetaMessage(<<>>)

\* the blocks of a final message, with the fields model_dump() gives them
FinalTextBlock(text) == [citations |-> "none"] @@ Block("text", 0, text)

FinalToolUseBlock(id) == [name |-> "bash", input |-> "{command}"] @@ BetaToolUseBlockParam(id)

FinalThinkingBlock(text) == [signature |-> "sig"] @@ ThinkingBlockParam(text)

\* the final messages a message_stop event carries
FinalMessages ==
    { BetaMessage(<<FinalThinkingBlock("hmm"), FinalTextBlock(""),
                    FinalTextBlock("hello"), FinalToolUseBlock(1)>>),
      BetaMessage(<<FinalToolUseBlock(1), FinalTextBlock("bye")>>) }

\* the events a provider stream is made of
StreamEvents ==
    { Event("thinking", t, "", NoBlock, NoMessage, FALSE) : t \in {"", "hmm"} }
    \cup { Event("text", "", "hel", NoBlock, NoMessage, FALSE) }
    \cup { Event("content_block_start", "", "", b, NoMessage, FALSE) :
              b \in { ContentBlock("tool_use", "bash", "", TRUE),
                      ContentBlock("tool_use", "bash", "{command}", TRUE),
                      ContentBlock("text", "", "", FALSE) } }
    \cup { Event("message_start", "", "", NoBlock, StartMessage, TRUE) }
    \cup { Event("message_stop", "", "", NoBlock, m, TRUE) : m \in FinalMessages }
    \cup { Event("message_stop", "", "", NoBlock, NoMessage, FALSE) }
    \cup { Event(t, "", "", NoBlock, NoMessage, FALSE) :
              t \in {"content_block_delta", "signature"} }

\* the streams of at most MaxEvents events
Streams == UNION { [1..n -> StreamEvents] : n \in 0..MaxEvents }

\* mutant: a tool_use block is announced whatever its input
process_content_block_start_Always(event) ==
    IF event.content_block.type = "tool_use"
    THEN << [type |-> "tool_use", name |-> event.content_block.name,
             input |-> event.content_block.input] >>
    ELSE <<>>

\* process_content_block_start: the notifications it hands to output_callback
process_content_block_start(event) ==
    IF /\ event.content_block.type = "tool_use"
       /\ event.content_block.has_input
       /\ event.content_block.input # ""
    THEN << [type |-> "tool_use", name |-> event.content_block.name,
             input |-> event.content_block.input] >>
    ELSE <<>>

\* mutant: an event without a handler is forwarded as text
handle_stream_event_Default(event) ==
    CASE event.type = "thinking" ->
             << [type |-> "thinking", thinking |-> event.thinking] >>
      [] event.type = "content_block_start" -> process_content_block_start(event)
      [] OTHER -> << [type |-> "text", text |-> event.text] >>

\* handle_stream_event: the notifications it hands to output_callback;
\* event_handlers.get(event.type) is None for every other type
handle_stream_event(event) ==
    CASE event.type = "thinking" ->
             << [type |-> "thinking", thinking |-> event.thinking] >>
      [] event.type = "text" -> << [type |-> "text", text |-> event.text] >>
      [] event.type = "content_block_start" -> process_content_block_start(event)
      [] OTHER -> <<>>

\* mutant: only message_start sets the message
TrackMessage_StartOnly(full, event) ==
    IF event.type = "message_start" THEN event.message ELSE full

\* stream_response, "Track message state": full_response after the event
TrackMessage(full, event) ==
    IF event.type = "message_start" THEN event.message
    ELSE IF event.type = "message_stop" /\ event.has_message THEN event.message
    ELSE full

\* one iteration of `async for event in stream`
HandleStreamEvent ==
    /\ fn = "stream"
    /\ pc = "STREAMING"
    /\ stream # <<>>
    /\ LET event == Head(stream)
       IN  /\ output_calls' = output_calls \o handle_stream_event(event)
           /\ full_response' = TrackMessage(full_response, event)
           /\ consumed' = Append(consumed, event)
    /\ stream' = Tail(stream)
    /\ UNCHANGED <<messages, messages_obj, tools, in_sampling_loop, auth_validated,
                   provider, only_n_most_recent_images, entrypoint, pc,
                   response_params, k, tool_results, next_id, next_uid, runs,
                   api_calls, dispatch_log, iter_start, fail_at, caught, running>>
    /\ UNCHANGED open_exchanges
    /\ UNCHANGED <<fn, arg_images_to_keep, arg_min_removal_threshold, fn_applied,
                   fn_before, fn_raised, fn_arg, fn_out>>

\* the stream is exhausted: stream_response returns full_response
StreamEnd ==
    /\ fn = "stream"
    /\ pc = "STREAMING"
    /\ stream = <<>>
    /\ pc' = "INTERPRETING"
    /\ open_exchanges' = CloseExchange(open_exchanges)
    /\ UNCHANGED <<messages, messages_obj, tools, in_sampling_loop, auth_validated,
                   provider, only_n_most_recent_images, entrypoint, full_response,
                   response_params, k, tool_results, next_id, next_uid, runs,
                   api_calls, dispatch_log, iter_start, fail_at, caught, running>>
    /\ UNCHANGED fn_vars

\* the first iteration of a sampling_loop call has opened the exchange
StreamInit ==
    /\ messages = <<Turn("user", <<BetaTextBlockParam("hi")>>, TRUE, 1)>>
    /\ messages_obj = 0
    /\ tools = {}
    /\ in_sampling_loop = TRUE
    /\ auth_validated = TRUE
    /\ provider = "bedrock"
    /\ only_n_most_recent_images = 0
    /\ entrypoint \in Entrypoints
    /\ pc = "STREAMING"
    /\ full_response = NoMessage
    /\ response_params = <<>>
    /\ k = 1
    /\ tool_results = <<>>
    /\ next_id = 2
    /\ next_uid = 2
    /\ runs = 1
    /\ api_calls = <<>>
    /\ dispatch_log = <<>>
    /\ iter_start = messages
    /\ fail_at = "none"
    /\ caught = "None"
    /\ running = {}
    /\ open_exchanges = 1
    /\ fn = "stream"
    /\ arg_images_to_keep = None
    /\ arg_min_removal_threshold = 1
    /\ fn_applied = <<>>
    /\ fn_before = <<>>
    /\ fn_raised = "None"
    /\ fn_arg = <<>>
    /\ fn_out = <<>>
    /\ stream \in Streams
    /\ consumed = <<>>
    /\ output_calls = <<>>

StreamNext ==
    \/ HandleStreamEvent
    \/ StreamEnd
    \/ Interpret

StreamSpec == StreamInit /\ [][StreamNext]_vars

(***************************************************************************)
(* Properties.                                                              *)
(***************************************************************************)
LastOf(seq) == seq[Len(seq)]

\* the positions <<turn, block>> after turn i of the tool_result blocks for id
ResultsAfter(msgs, i, id) ==
    {p \in {<<j, n>> : j \in (i + 1)..Len(msgs), n \in 1..(MaxIds + 3)} :
        /\ p[2] <= Len(msgs[p[1]].content)
        /\ msgs[p[1]].content[p[2]].type = "tool_result"
        /\ msgs[p[1]].content[p[2]].id = id}

AllPaired(msgs) ==
    \A i \in 1..Len(msgs) :
        msgs[i].role = "assistant" =>
            \A n \in 1..Len(msgs[i].content) :
                msgs[i].content[n].type = "tool_use" =>
                    Cardinality(ResultsAfter(msgs, i, msgs[i].content[n].id)) = 1

\* a step of the Reset button pressed on a session that has a history: the
\* session state is built anew
ResetStep == messages # <<>> /\ messages' = <<>>

\* a step of the sampling_loop call in flight (and not a new run of the script)
LoopStep == pc \in Running /\ runs' = runs /\ pc' # "ABORTED"

\* C1: in the history returned by a run that ends in TERMINATED, every tool_use
\* id of an assistant turn has exactly one tool_result with that id in a later
\* turn, also when the run started from the history earlier runs left behind.
C1_PairingOnTermination == pc = "TERMINATED" => AllPaired(messages)

C3_NoToolTermination ==
    /\ [](pc = "TERMINATED" =>
            /\ Len(messages) = Len(iter_start) + 1
            /\ \A i \in 1..Len(iter_start) : messages[i].uid = iter_start[i].uid
            /\ LastOf(messages).role = "assistant"
            /\ ToolUseIds(LastOf(messages).content) = <<>>
            /\ dispatch_log = <<>>
            /\ ~in_sampling_loop)
    /\ [][/\ (/\ LoopStep
              /\ pc = "INTERPRETING"
              /\ full_response.present
              /\ ToolUseIds(full_response.content) = <<>>)
             => /\ pc' = "DISPATCHING_TOOLS"
                /\ messages' = Append(messages, LastOf(messages'))
                /\ LastOf(messages').role = "assistant"
                /\ ToolUseIds(response_params') = <<>>
          /\ (/\ LoopStep
              /\ pc = "DISPATCHING_TOOLS"
              /\ ToolUseIds(response_params) = <<>>)
             => /\ pc' = "TERMINATED"
                /\ messages' = messages
                /\ dispatch_log' = <<>>
                /\ tools' = tools
         ]_vars

C3_Witness ==
    /\ pc = "TERMINATED"
    /\ Len(messages) = Len(iter_start) + 1
    /\ LastOf(messages).role = "assistant"
    /\ full_response.present
    /\ ToolUseIds(full_response.content) = <<>>

\* C4: a call that returns in FAILED has invoked api_response_callback exactly
\* once, with the caught error as third argument; a call that returns in
\* TERMINATED has not invoked it.
C4_ErrorSinkOnce ==
    /\ pc = "FAILED" =>
           /\ Len(api_calls) = 1
           /\ api_calls[1].error = caught
           /\ caught # "None"
           /\ ~in_sampling_loop
    /\ pc = "TERMINATED" => api_calls = <<>>

C4_Witness == pc = "FAILED" /\ Len(api_calls) = 1 /\ api_calls[1].error = "APIStatusError"

\* C5: no failure leaves sampling_loop as a raised exception.
C5_NothingEscapes == pc # "RAISED"

\* a turn without what request building may change in place: the cache
\* breakpoint markers and the image sub-blocks of tool_result blocks
WithoutAdjustments(turn) ==
    [turn EXCEPT !.content =
        [n \in 1..Len(turn.content) |->
            [turn.content[n] EXCEPT
                !.cache_control = FALSE,
                !.content = SelectSeq(turn.content[n].content,
                                      LAMBDA sub: ~IsImage(sub))]]]

FailedBeforeFinalMessage ==
    pc = "FAILED" /\ fail_at \in {"STREAMING", "INTERPRETING"}

\* C6 as stated: after an exchange that failed before a final message was
\* obtained, the returned history equals the history as it was when the
\* iteration began.
C6_HistoryEqualsIterationStart == FailedBeforeFinalMessage => messages = iter_start

\* C6 as amended: after an exchange that failed before a final message was
\* obtained, the returned history has the turns it had when the iteration
\* began, in the same order and with the same blocks; the turns differ at most
\* by the cache-breakpoint markers and the pruned tool_result images that
\* request building changed in place before the exchange.
C6_NoTurnAppendedOnFailure ==
    FailedBeforeFinalMessage =>
        /\ Len(messages) = Len(iter_start)
        /\ \A i \in 1..Len(messages) :
               WithoutAdjustments(messages[i]) = WithoutAdjustments(iter_start[i])

C6_Witness ==
    /\ FailedBeforeFinalMessage
    /\ fail_at = "INTERPRETING"
    /\ messages # iter_start
    /\ Len(messages) > 1

\* C7: the session keeps one list object, and every step of a loop iteration
\* or of a user input leaves the turns that were in the history in place: none
\* is removed, replaced or moved, so the earlier sequence of turns is a prefix
\* of the later one (the Reset button builds a new session state).
C7_AppendOnly ==
    [][~ResetStep
       => /\ messages_obj' = messages_obj
          /\ Len(messages') >= Len(messages)
          /\ \A i \in 1..Len(messages) :
                 /\ messages'[i].uid = messages[i].uid
                 /\ messages'[i].role = messages[i].role
                 /\ WithoutAdjustments(messages'[i]) = WithoutAdjustments(messages[i])
      ]_vars

C7_Witness ==
    /\ pc = "TERMINATED"
    /\ runs = 2
    /\ Len(messages) >= 5
    /\ messages_obj = 0

\* a step in which main appends the turn of a chat input
UserInputStep ==
    /\ Len(messages') = Len(messages) + 1
    /\ LastOf(messages').role = "user"
    /\ LastOf(messages').sender_enum

InterruptedToolIds ==
    IF messages # <<>> /\ LastOf(messages).role = "assistant"
    THEN ToolUseIds(LastOf(messages).content) ELSE <<>>

\* C8: a chat input that arrives while in_sampling_loop is true and the last
\* turn is an assistant turn with N tool_use blocks appends a user turn that
\* begins with N is_error tool_result blocks carrying the N ids in order, holds
\* no other tool_result block, and ends with the text the user typed, so that
\* each of the N ids has exactly one tool_result after the assistant turn.
C8_InterruptionPairsToolUses ==
    [][(/\ UserInputStep
        /\ in_sampling_loop
        /\ messages # <<>>
        /\ LastOf(messages).role = "assistant")
       => LET ids == InterruptedToolIds
              c == LastOf(messages').content
          IN  /\ Len(c) > Len(ids)
              /\ \A i \in 1..Len(ids) :
                     /\ c[i].type = "tool_result"
                     /\ c[i].is_error
                     /\ c[i].id = ids[i]
              /\ \A i \in (Len(ids) + 1)..Len(c) : c[i].type = "text"
              /\ c[Len(c)].text \in UserTexts
              /\ \A i \in 1..Len(ids) :
                     Cardinality(ResultsAfter(messages', Len(messages), ids[i])) = 1
      ]_vars

C8_Witness ==
    /\ Len(messages) >= 2
    /\ LastOf(messages).role = "user"
    /\ LastOf(messages).sender_enum
    /\ messages[Len(messages) - 1].role = "assistant"
    /\ Len(ToolUseIds(messages[Len(messages) - 1].content)) = 2
    /\ LastOf(messages).content[1].type = "tool_result"
    /\ LastOf(messages).content[2].type = "tool_result"
    /\ LastOf(messages).content[2].is_error

TwoInterruptedToolUses ==
    /\ UserInputStep
    /\ in_sampling_loop
    /\ Len(InterruptedToolIds) = 2
    /\ LastOf(LastOf(messages').content).text = "stop"

InterruptResult(id) ==
    BetaToolResultBlockParam(id, FALSE, INTERRUPT_TOOL_ERROR, <<>>, TRUE)

\* C9 as stated: interrupting an assistant turn with unresolved tool_use ids a1
\* and a2 with the input "stop" appends a user turn whose content is exactly
\* the three blocks tool_result(a1, error), tool_result(a2, error), text("stop").
C9_ThreeBlocks ==
    [][TwoInterruptedToolUses
       => LastOf(messages').content =
              << InterruptResult(InterruptedToolIds[1]),
                 InterruptResult(InterruptedToolIds[2]),
                 BetaTextBlockParam("stop") >>
      ]_vars

\* C9 as amended: the content of the appended user turn is exactly the four
\* blocks tool_result(a1, error), tool_result(a2, error), text(INTERRUPT_TEXT),
\* text("stop").
C9_FourBlocks ==
    [][TwoInterruptedToolUses
       => LastOf(messages').content =
              << InterruptResult(InterruptedToolIds[1]),
                 InterruptResult(InterruptedToolIds[2]),
                 BetaTextBlockParam(INTERRUPT_TEXT),
                 BetaTextBlockParam("stop") >>
      ]_vars

C9_Witness ==
    /\ Len(messages) >= 2
    /\ messages[Len(messages) - 1].role = "assistant"
    /\ Len(ToolUseIds(messages[Len(messages) - 1].content)) = 2
    /\ LastOf(messages).sender_enum
    /\ Len(LastOf(messages).content) = 4
    /\ LastOf(messages).content[3] = BetaTextBlockParam(INTERRUPT_TEXT)
    /\ LastOf(messages).content[4] = BetaTextBlockParam("stop")

\* C10: a chat input that arrives while in_sampling_loop is false appends
\* exactly one user turn, whose content is the single text block of the input,
\* and sampling_loop is started on that history.
C10_BareUserTurn ==
    [][(~in_sampling_loop /\ messages' # messages /\ ~ResetStep)
       => /\ messages' = Append(messages, LastOf(messages'))
          /\ LastOf(messages').role = "user"
          /\ \E t \in UserTexts : LastOf(messages').content = <<BetaTextBlockParam(t)>>
          /\ pc' = "BUILD_REQUEST"
          /\ iter_start' = messages'
      ]_vars

C10_Witness ==
    /\ pc = "BUILD_REQUEST"
    /\ runs = 2
    /\ iter_start = messages
    /\ Len(messages) >= 3
    /\ LastOf(messages).content = <<BetaTextBlockParam("stop")>>

\* the positions of the tool_use blocks of an assistant turn's content
ToolUsePositions(content) == {n \in 1..Len(content) : content[n].type = "tool_use"}

\* a step in which execute_tool calls the tool sink
SinkStep == Len(dispatch_log') = Len(dispatch_log) + 1

\* a step in which the loop appends the tool-result turn
ResultTurnStep == LoopStep /\ pc = "DISPATCHING_TOOLS" /\ pc' = "BUILD_REQUEST"

C12_SequentialDispatch ==
    /\ [](/\ Cardinality(running) <= 1
           /\ \A m, n \in 1..Len(dispatch_log) :
                  m < n => dispatch_log[m].position < dispatch_log[n].position)
    /\ [][(running' # running /\ running' # {})
           => /\ running = {}
              /\ pc = "DISPATCHING_TOOLS"
              /\ \E q \in ToolUsePositions(response_params) :
                     /\ running' = {q}
                     /\ \A p \in ToolUsePositions(response_params) :
                            (p < q) <=> (\E n \in 1..Len(dispatch_log) :
                                            /\ dispatch_log[n].position = p
                                            /\ ~dispatch_log[n].sink_raised)
         ]_vars

C12_Witness ==
    /\ pc = "DISPATCHING_TOOLS"
    /\ running = {3}
    /\ Len(dispatch_log) = 1
    /\ dispatch_log[1].position = 1

\* C13: a step that runs a tool which returns a ToolResult with its error field
\* set (the tool sink returning normally) leaves the loop in DISPATCHING_TOOLS
\* with an is_error tool_result for that id collected; when the batch is
\* through, the loop appends the user turn with that block and goes back to
\* BUILD_REQUEST, without returning.
C13_ToolErrorContinues ==
    [][/\ (/\ LoopStep
           /\ SinkStep
           /\ LastOf(dispatch_log').outcome = "error"
           /\ ~LastOf(dispatch_log').sink_raised)
          => /\ pc' = "DISPATCHING_TOOLS"
             /\ in_sampling_loop'
             /\ tool_results' = Append(tool_results, LastOf(tool_results'))
             /\ LastOf(tool_results').type = "tool_result"
             /\ LastOf(tool_results').id = LastOf(dispatch_log').id
             /\ LastOf(tool_results').is_error = TRUE
             /\ ~LastOf(tool_results').list_content
       /\ (/\ LoopStep
           /\ pc = "DISPATCHING_TOOLS"
           /\ ~SinkStep
           /\ running' = running
           /\ \E n \in 1..Len(dispatch_log) : dispatch_log[n].outcome = "error")
          => /\ pc' = "BUILD_REQUEST"
             /\ in_sampling_loop'
             /\ messages' = Append(messages, LastOf(messages'))
             /\ LastOf(messages').role = "user"
             /\ \A n \in 1..Len(dispatch_log) :
                    dispatch_log[n].outcome = "error" =>
                        /\ LastOf(messages').content[n].type = "tool_result"
                        /\ LastOf(messages').content[n].id = dispatch_log[n].id
                        /\ LastOf(messages').content[n].is_error = TRUE
      ]_vars

C13_Witness ==
    /\ pc = "STREAMING"
    /\ Len(dispatch_log) = 1
    /\ dispatch_log[1].outcome = "error"
    /\ ~dispatch_log[1].sink_raised
    /\ LastOf(messages).role = "user"
    /\ LastOf(messages).content[1].is_error
    /\ LastOf(messages).content[1].id = dispatch_log[1].id

\* the moves of the control state that the loop itself makes; RAISED stands for
\* a call that an exception has left (from request building, or from the error
\* sink called in the except clause), which is no state of the loop
LoopEdges ==
    { <<"BUILD_REQUEST", "STREAMING">>,
      <<"STREAMING", "INTERPRETING">>,
      <<"INTERPRETING", "DISPATCHING_TOOLS">>,
      <<"DISPATCHING_TOOLS", "DISPATCHING_TOOLS">>,
      <<"DISPATCHING_TOOLS", "BUILD_REQUEST">>,
      <<"DISPATCHING_TOOLS", "TERMINATED">> }
    \cup {<<s, "FAILED">> : s \in {"STREAMING", "INTERPRETING", "DISPATCHING_TOOLS"}}
    \cup {<<s, "RAISED">> : s \in Running}

\* a step in which the call hands the history back to its caller
ReturnStep == in_sampling_loop /\ ~in_sampling_loop' /\ ~ResetStep

\* C14: every step of a sampling_loop call moves the control state along
\* BUILD_REQUEST -> STREAMING -> INTERPRETING -> DISPATCHING_TOOLS ->
\* (BUILD_REQUEST | TERMINATED), or to FAILED from inside the try block; once
\* the call is in TERMINATED or FAILED nothing but the start of a new call (or
\* the Reset button, which ends the session) changes the control state; the call returns exactly in the steps that enter
\* TERMINATED (the last turn then being an assistant turn without tool_use) or
\* FAILED, and the step that appends a tool-result turn goes to BUILD_REQUEST
\* without returning.
C14_ControlStateOrder ==
    [][/\ LoopStep => <<pc, pc'>> \in LoopEdges
       /\ (pc' # pc /\ ~LoopStep)
          => \/ pc' = "ABORTED" /\ pc \in Running
             \/ pc' = "BUILD_REQUEST" /\ runs' = runs + 1
             \/ pc' = "IDLE" /\ ResetStep
       /\ (pc \in {"TERMINATED", "FAILED"} /\ pc' # pc /\ ~ResetStep)
          => pc' = "BUILD_REQUEST" /\ runs' = runs + 1
       /\ ReturnStep <=> (pc \in Running /\ pc' \in {"TERMINATED", "FAILED"})
       /\ (LoopStep /\ pc' = "TERMINATED")
          => /\ pc = "DISPATCHING_TOOLS"
             /\ messages' = messages
             /\ LastOf(messages).role = "assistant"
             /\ ToolUseIds(LastOf(messages).content) = <<>>
       /\ (LoopStep /\ Len(messages') = Len(messages) + 1
              /\ LastOf(messages').role = "user")
          => /\ pc' = "BUILD_REQUEST"
             /\ ~ReturnStep
             /\ pc = "DISPATCHING_TOOLS"
      ]_vars

C14_Witness ==
    /\ pc = "TERMINATED"
    /\ runs = 1
    /\ Len(messages) = 4
    /\ messages[2].role = "assistant"
    /\ messages[3].role = "user"
    /\ messages[3].content[1].type = "tool_result"
    /\ messages[4].role = "assistant"

\* C15: every sampling_loop call that the UI does not abandon eventually
\* reaches TERMINATED or FAILED, where it has returned the history.
C15_RunTerminates ==
    [](pc \in Running => <>(pc \in {"TERMINATED", "FAILED", "ABORTED"}))

\* the positions <<turn, block, sub-block>> of the images inside the
\* tool_result blocks of a history
ImagePositions(h) ==
    UNION { UNION { { <<i, j, m>> :
                        m \in {x \in 1..Len(h[i].content[j].content) :
                                 /\ h[i].content[j].type = "tool_result"
                                 /\ h[i].content[j].list_content
                                 /\ IsImage(h[i].content[j].content[x])} } :
                    j \in 1..Len(h[i].content) } :
            i \in 1..Len(h) }

\* document order
NotAfter(p, q) ==
    \/ p[1] < q[1]
    \/ p[1] = q[1] /\ p[2] < q[2]
    \/ p[1] = q[1] /\ p[2] = q[2] /\ p[3] <= q[3]

\* the sub-blocks of block j of turn i, without those of the e oldest images
\* of the history
WithoutOldest(h, i, j, e) ==
    LET c == h[i].content[j].content
        kept == {m \in 1..Len(c) :
                    ~(/\ <<i, j, m>> \in ImagePositions(h)
                      /\ Cardinality({q \in ImagePositions(h) :
                                         NotAfter(q, <<i, j, m>>)}) <= e)}
    IN  [n \in 1..Cardinality(kept) |->
            c[CHOOSE m \in kept : Cardinality({x \in kept : x <= m}) = n]]

\* a call of the retention policy that returns
RetentionStep ==
    /\ fn = "retention"
    /\ Len(fn_applied') = Len(fn_applied) + 1
    /\ fn_raised' = "None"

\* C16: a call of the retention policy that follows a call with the same
\* images_to_keep and min_removal_threshold leaves the history as it is.
C16_SecondApplicationNoOp ==
    [][(RetentionStep /\ fn_applied # <<>>) => messages' = messages]_vars

C16_Witness ==
    /\ fn = "retention"
    /\ Len(fn_applied) = 2
    /\ TotalImages(fn_before[1]) > TotalImages(fn_before[2])
    /\ fn_before[2] = messages
    /\ TotalImages(messages) > arg_images_to_keep

\* C17: a call of the retention policy with images_to_keep = keep and
\* min_removal_threshold = t on a history with total images in its tool_result
\* blocks takes out the E images that come first in document order and nothing
\* else, E being total - keep rounded down to a multiple of t when
\* total > keep and 0 otherwise.
C17_RemovesOldestExcess ==
    [][(RetentionStep /\ arg_images_to_keep # None)
       => LET total == TotalImages(messages)
              excess == total - arg_images_to_keep
              E == IF total > arg_images_to_keep
                   THEN excess - (excess % arg_min_removal_threshold) ELSE 0
          IN  /\ TotalImages(messages') = total - E
              /\ Len(messages') = Len(messages)
              /\ \A i \in 1..Len(messages) :
                     /\ Len(messages'[i].content) = Len(messages[i].content)
                     /\ \A j \in 1..Len(messages[i].content) :
                            messages'[i].content[j].content
                                = WithoutOldest(messages, i, j, E)
      ]_vars

C17_Witness ==
    /\ fn = "retention"
    /\ Len(fn_applied) = 1
    /\ arg_images_to_keep = 1
    /\ arg_min_removal_threshold = 2
    /\ TotalImages(fn_before[1]) = 4
    /\ TotalImages(messages) = 2

\* C18: a call of the retention policy leaves the number and the order of the
\* turns, the blocks of every turn and all their fields but the sub-blocks of
\* a tool_result as they are; of a tool_result with a list as content the
\* sub-blocks that are not images stay, in their order; a tool_result with a
\* string as content and an image outside a tool_result stay as they are.
C18_OnlyToolResultImagesRemoved ==
    [][RetentionStep
       => /\ Len(messages') = Len(messages)
          /\ \A i \in 1..Len(messages) :
                 /\ [messages'[i] EXCEPT !.content = <<>>]
                        = [messages[i] EXCEPT !.content = <<>>]
                 /\ Len(messages'[i].content) = Len(messages[i].content)
                 /\ \A j \in 1..Len(messages[i].content) :
                        LET old == messages[i].content[j]
                            new == messages'[i].content[j]
                        IN  IF old.type = "tool_result" /\ old.list_content
                            THEN /\ [new EXCEPT !.content = <<>>]
                                        = [old EXCEPT !.content = <<>>]
                                 /\ SelectSeq(new.content, LAMBDA sub: ~IsImage(sub))
                                        = SelectSeq(old.content, LAMBDA sub: ~IsImage(sub))
                                 /\ Len(new.content) <= Len(old.content)
                            ELSE new = old
      ]_vars

C18_Witness ==
    /\ fn = "retention"
    /\ Len(fn_applied) = 1
    /\ TotalImages(messages) < TotalImages(fn_before[1])
    /\ \E i \in 1..Len(messages) :
           /\ Len(messages[i].content) = 2
           /\ messages[i].content[1].type = "tool_result"
           /\ ~messages[i].content[1].list_content
           /\ messages[i].content[2].type = "image"
    /\ \E i \in 1..Len(messages) :
           /\ messages[i].content[1].type = "tool_result"
           /\ messages[i].content[1].content = <<TextSubBlock("out")>>

\* C19: a call of the retention policy with min_removal_threshold = 0, or
\* with images_to_keep = None, raises nothing and leaves the history as it
\* was.
C19_NoOpWithoutError ==
    (/\ fn = "retention"
     /\ fn_applied # <<>>
     /\ (arg_min_removal_threshold = 0 \/ arg_images_to_keep = None))
    => (fn_raised = "None" /\ messages = fn_before[1])

\* the turns that carry a cache-breakpoint marker
MarkedTurns(h) ==
    {i \in 1..Len(h) : \E n \in 1..Len(h[i].content) : h[i].content[n].cache_control}

UserTurns(h) == {i \in 1..Len(h) : h[i].role = "user"}

\* the n largest members of S
MostRecent(S, n) == {i \in S : Cardinality({j \in S : j > i}) < n}

\* C20: after a call of the cache annotator at most 3 turns of the history
\* carry a cache-breakpoint marker, and the turns that carry one are the 3
\* most recent user turns.
C20_ThreeMostRecentMarked ==
    [][(fn = "caching" /\ Len(fn_applied') = Len(fn_applied) + 1)
       => /\ Cardinality(MarkedTurns(messages')) <= BreakpointsInitial
          /\ MarkedTurns(messages')
                 = MostRecent(UserTurns(messages'), BreakpointsInitial)
      ]_vars

ListUserTurns(h) == {i \in UserTurns(h) : IsList(h[i].content)}

\* C21: one call of the cache annotator, counting only user turns with list
\* content from the newest, sets the marker on the last block of the first 3,
\* removes it from the last block of the 4th and stops; assistant turns,
\* string-content user turns, blocks that are not the last of their turn and
\* older turns are left unchanged.
C21_AnnotatorScan ==
    [][(fn = "caching" /\ Len(fn_applied') = Len(fn_applied) + 1)
       => LET h == messages
              marked == MostRecent(ListUserTurns(h), BreakpointsInitial)
              fourth == MostRecent(ListUserTurns(h), BreakpointsInitial + 1) \ marked
          IN  /\ Len(messages') = Len(h)
              /\ \A i \in 1..Len(h) :
                     /\ messages'[i] = [h[i] EXCEPT !.content = messages'[i].content]
                     /\ Len(messages'[i].content) = Len(h[i].content)
                     /\ \A n \in 1..Len(h[i].content) :
                            messages'[i].content[n] =
                                IF i \in marked \cup fourth /\ n = Len(h[i].content)
                                THEN [h[i].content[n] EXCEPT
                                         !.cache_control = (i \in marked)]
                                ELSE h[i].content[n]
      ]_vars

\* a second call has removed the marker of the 4th list-content user turn, in a
\* history that also holds a string-content user turn
C21_Witness ==
    /\ fn = "caching"
    /\ Len(fn_applied) = 2
    /\ \E i \in ListUserTurns(messages) :
           /\ i \in MarkedTurns(fn_before[2])
           /\ i \notin MarkedTurns(messages)
           /\ Cardinality({j \in ListUserTurns(messages) : j > i}) = BreakpointsInitial
    /\ \E i \in UserTurns(messages) : ~IsList(messages[i].content)

\* the tool_result block a call of _make_api_tool_result returned
Converted == fn = "tool_result" /\ fn_applied # <<>>

\* the texts a tool_result block holds: its string content, or the text of the
\* text blocks of its list content
TextsOf(block) ==
    IF block.list_content
    THEN {block.content[n].text : n \in {m \in 1..Len(block.content) :
                                            block.content[m].type = "text"}}
    ELSE {block.text}

\* C22: a ToolResult is converted to a tool_result block with is_error = true
\* exactly when its error is non-empty; then the content is the error text
\* alone, without output or image; otherwise is_error = false and the content
\* is a list with a text block iff output is non-empty, followed by an image
\* block iff an image is present.
C22_ToolResultConversion ==
    Converted =>
        LET r == fn_arg.result
            types == [n \in 1..Len(fn_out.content) |-> fn_out.content[n].type]
        IN  /\ fn_out.type = "tool_result"
            /\ fn_out.id = fn_arg.tool_use_id
            /\ fn_out.is_error = (r.error # "")
            /\ r.error # "" =>
                   /\ ~fn_out.list_content
                   /\ fn_out.content = <<>>
                   /\ fn_out.text \in {r.error,
                                        "<system>" \o r.system \o "</system>\n" \o r.error}
            /\ r.error = "" =>
                   /\ fn_out.list_content
                   /\ types = (IF r.output # "" THEN <<"text">> ELSE <<>>)
                                  \o (IF r.base64_image # "" THEN <<"image">> ELSE <<>>)
                   /\ r.base64_image # "" =>
                          fn_out.content[Len(types)].text = r.base64_image
                   /\ r.output # "" =>
                          fn_out.content[1].text \in
                              {r.output,
                               "<system>" \o r.system \o "</system>\n" \o r.output}

\* a result that has an error, an output and an image has been converted to an
\* error block
C22_Witness ==
    /\ Converted
    /\ fn_arg.result.output # ""
    /\ fn_arg.result.base64_image # ""
    /\ fn_arg.result.error # ""
    /\ fn_out.is_error

\* C23 as stated: whenever the ToolResult carries a system note, the block
\* built from it holds a text that starts with the note in its <system>
\* delimiter, followed by the result's text, for every combination of output,
\* error and image.
C23_SystemNoteAlwaysPresent ==
    (Converted /\ fn_arg.result.system # "") =>
        \E t \in {fn_arg.result.error, fn_arg.result.output} :
            "<system>" \o fn_arg.result.system \o "</system>\n" \o t \in TextsOf(fn_out)

\* C23: when the ToolResult carries a system note and has an error or an
\* output, the one text of the block is the note in its <system> delimiter
\* followed by the error text, or by the output when there is no error; when it
\* has neither, the block holds no text and the note is not in it.
C23_SystemNotePrependedToText ==
    (Converted /\ fn_arg.result.system # "") =>
        LET r == fn_arg.result
            note == "<system>" \o r.system \o "</system>\n"
        IN  TextsOf(fn_out) =
                IF r.error # "" THEN {note \o r.error}
                ELSE IF r.output # "" THEN {note \o r.output}
                ELSE {}

\* a result with a note, an output and no error has been converted
C23_Witness ==
    /\ Converted
    /\ fn_arg.result.system # ""
    /\ fn_arg.result.error = ""
    /\ fn_arg.result.output # ""
    /\ TextsOf(fn_out) # {}

\* stream_response handles the next event of the stream
StreamStep == fn = "stream" /\ Len(consumed') = Len(consumed) + 1

RecognisedTypes ==
    {"thinking", "text", "content_block_start", "message_start", "message_stop"}

\* C24: a streamed thinking event is forwarded to output_callback only if it
\* carries non-empty text; a thinking event with empty text produces no
\* output_callback invocation.
C24_ThinkingOnlyIfNonEmpty ==
    [][(StreamStep /\ Head(stream).type = "thinking")
       => output_calls' =
              IF Head(stream).thinking # ""
              THEN Append(output_calls,
                          [type |-> "thinking", thinking |-> Head(stream).thinking])
              ELSE output_calls
      ]_vars

\* C25: for every content_block_start event whose block is a tool_use,
\* output_callback is invoked exactly once with a tool_use notification that
\* carries the tool name and the input assembled at that point, also when that
\* input is still empty.
C25_ToolUseStartedOnce ==
    [][(StreamStep /\ Head(stream).type = "content_block_start"
                   /\ Head(stream).content_block.type = "tool_use")
       => output_calls' =
              Append(output_calls,
                     [type |-> "tool_use", name |-> Head(stream).content_block.name,
                      input |-> Head(stream).content_block.input])
      ]_vars

\* C26: a streaming event of an unrecognised type causes no output_callback
\* invocation, leaves the accumulated final message as it is and does not move
\* the loop to FAILED: the stream goes on.
C26_UnrecognisedEventIgnored ==
    [][(StreamStep /\ Head(stream).type \notin RecognisedTypes)
       => /\ output_calls' = output_calls
          /\ full_response' = full_response
          /\ api_calls' = api_calls
          /\ pc' = "STREAMING"
      ]_vars

\* an unrecognised event was handled after a message had been tracked and
\* notifications forwarded, and the stream has completed
C26_Witness ==
    /\ fn = "stream"
    /\ pc = "INTERPRETING"
    /\ full_response.present
    /\ output_calls # <<>>
    /\ consumed[Len(consumed)].type \notin RecognisedTypes

\* the message of the last event that carries one
RECURSIVE FinalMessageOf(_)
FinalMessageOf(events) ==
    IF events = <<>> THEN NoMessage
    ELSE LET e == events[Len(events)]
         IN  IF e.has_message THEN e.message
             ELSE FinalMessageOf(SubSeq(events, 1, Len(events) - 1))

\* the blocks of a final message that go to the history
KeptBlocks(content) ==
    SelectSeq(content, LAMBDA b : ~(b.type = "text" /\ b.text = ""))

\* the assistant turn of the exchange has been appended
TurnAppended == fn = "stream" /\ pc = "DISPATCHING_TOOLS"

\* C27: the assistant turn appended after a stream completes is built from
\* the final message only, not from the forwarded deltas: in the final
\* message's order it holds every text block with non-empty text, every
\* tool_use block with its id, name and input, and every thinking block with
\* its signature; it is a function of the final message alone.
C27_TurnFromFinalMessage ==
    TurnAppended =>
        LET final == KeptBlocks(FinalMessageOf(consumed).content)
            turn == messages[Len(messages)]
        IN  /\ turn.role = "assistant"
            /\ Len(messages) = Len(iter_start) + 1
            /\ Len(turn.content) = Len(final)
            /\ \A n \in 1..Len(final) :
                   IF final[n].type = "text"
                   THEN /\ turn.content[n].type = "text"
                        /\ turn.content[n].text = final[n].text
                   ELSE turn.content[n] = final[n]

\* a turn with thinking, text and tool_use blocks was appended after deltas with
\* another text had been forwarded
C27_Witness ==
    /\ TurnAppended
    /\ \E n \in 1..Len(output_calls) :
           output_calls[n].type = "text" /\ output_calls[n].text = "hel"
    /\ LET c == messages[Len(messages)].content
       IN  /\ Len(c) = 3
           /\ c[1].type = "thinking" /\ c[1].signature = "sig"
           /\ c[2].type = "text" /\ c[2].text = "hello"
           /\ c[3].type = "tool_use" /\ c[3].name = "bash" /\ c[3].input = "{command}"

\* C28: a rate-limit failure stays distinguishable at the error sink: the sink
\* receives the original error, with request and response for status errors,
\* and the handler of the entrypoint takes the rate-limit branch, which shows
\* the retry-after duration, exactly for a rate-limit error; in both
\* entrypoints.
C28_RateLimitDistinguishable ==
    (fn = "error_sink" /\ fn_applied # <<>>) =>
        LET call == api_calls[1]
        IN  /\ call.error = fn_arg.error
            /\ fn_arg.error \in {"APIStatusError", "RateLimitError"} =>
                   call.request = "error.request" /\ call.response = "error.response"
            /\ fn_raised = "None"
            /\ (fn_out.branch = "rate_limit") = (fn_arg.error = "RateLimitError")
            /\ fn_arg.error = "RateLimitError" =>
                   fn_out.retry_after = fn_arg.retry_after

\* C29: at most one provider exchange is open at any time and no exchange is
\* open while a tool runs: the stream of an iteration is closed, and its
\* assistant turn appended, before the first tool of the iteration is started,
\* and the exchange of a later iteration is opened only when no tool runs and
\* the tool-result turn for the previous assistant turn, one result per
\* tool_use block, is the last turn of the history.
C29_OneExchangeAtATime ==
    /\ [](/\ open_exchanges \in {0, 1}
          /\ (running # {}) => (open_exchanges = 0))
    /\ [][(/\ running' # {}
            /\ running = {})
           => (/\ open_exchanges = 0
               /\ messages[Len(messages)].role = "assistant"
               /\ messages[Len(messages)].content = response_params)
         ]_vars
    /\ [][(open_exchanges' > open_exchanges)
           => (/\ open_exchanges = 0
               /\ running = {}
               /\ (response_params # <<>>)
                  => (/\ Len(messages) >= 2
                      /\ messages[Len(messages)].role = "user"
                      /\ messages[Len(messages)].content = tool_results
                      /\ messages[Len(messages) - 1].content = response_params
                      /\ [n \in 1..Len(tool_results) |-> tool_results[n].id]
                             = ToolUseIds(response_params)))
         ]_vars

\* the exchange of a second iteration is open after the tools of the first
\* have run
C29_Witness ==
    /\ fn = "session"
    /\ pc = "STREAMING"
    /\ open_exchanges = 1
    /\ dispatch_log # <<>>
    /\ messages[Len(messages)].content = tool_results

\* C30: a user turn submitted while a loop iteration is in flight (during
\* streaming, after the assistant turn is appended, between two tool runs, or
\* after the tool-result turn is appended) goes through the interruption path:
\* the handler finds in_sampling_loop true, the turn it appends begins with
\* interruption blocks, and every tool_use id of the last turn has a
\* tool_result in it, so no bare user turn follows an assistant turn with
\* unpaired tool_use blocks.
C30_InterruptionWhileInFlight ==
    [][(UserInputStep /\ pc \in Running)
       => LET ids == ToolUseIds(LastOf(messages).content)
              c == LastOf(messages').content
          IN  /\ in_sampling_loop
              /\ Len(c) >= 2
              /\ c[Len(c) - 1] = BetaTextBlockParam(INTERRUPT_TEXT)
              /\ \A i \in 1..Len(ids) :
                     Cardinality(ResultsAfter(messages', Len(messages), ids[i])) = 1
      ]_vars

\* an input has interrupted the second run of the loop after its assistant
\* turn with two tool_use blocks: the appended turn pairs both and a new run
\* is started on it
C30_Witness ==
    /\ fn = "session"
    /\ runs = 2
    /\ pc = "BUILD_REQUEST"
    /\ in_sampling_loop
    /\ Len(messages) >= 3
    /\ LastOf(messages).sender_enum
    /\ Len(ToolUseIds(messages[Len(messages) - 1].content)) = 2
    /\ Len(LastOf(messages).content) = 4
    /\ LastOf(messages).content[3] = BetaTextBlockParam(INTERRUPT_TEXT)

\* the loop has appended the tool-result turn of an iteration and is about to
\* build the next request
ResultTurnAppended ==
    fn = "session" /\ pc = "BUILD_REQUEST" /\ response_params # <<>>

\* C31: after dispatching an assistant turn with n >= 1 tool_use blocks the
\* loop has appended exactly one turn, of role user, whose content is n
\* tool_result blocks in the order of the tool_use blocks, the i-th carrying
\* the id of the i-th tool_use block; the other blocks of the assistant turn
\* produce no result.
C31_OneResultTurnInOrder ==
    /\ ResultTurnAppended =>
           LET assistant == messages[Len(messages) - 1]
               turn == messages[Len(messages)]
               ids == ToolUseIds(response_params)
           IN  /\ Len(messages) = Len(iter_start) + 2
               /\ assistant.role = "assistant"
               /\ assistant.content = response_params
               /\ Len(ids) >= 1
               /\ turn.role = "user"
               /\ Len(turn.content) = Len(ids)
               /\ \A i \in 1..Len(ids) :
                      /\ turn.content[i].type = "tool_result"
                      /\ turn.content[i].id = ids[i]
    /\ (fn = "session" /\ pc = "TERMINATED") => ToolUseIds(response_params) = <<>>

\* the result turn of an assistant turn with two tool_use blocks around a text
\* block has been appended
C31_Witness ==
    /\ ResultTurnAppended
    /\ Len(response_params) = 3
    /\ response_params[2].type = "text"
    /\ Len(ToolUseIds(response_params)) = 2
    /\ Len(messages[Len(messages)].content) = 2

\* a step that prepares the history for the request of an iteration
RequestStep ==
    /\ fn = "request"
    /\ Len(fn_applied') = Len(fn_applied) + 1
    /\ LastOf(fn_applied') = "request"

\* the request of an iteration has just been built
RequestSent ==
    /\ fn = "request"
    /\ IF fn_applied = <<>> THEN FALSE ELSE LastOf(fn_applied) = "request"

\* the limit is one the loop applies
LimitApplies ==
    /\ provider # "anthropic"
    /\ only_n_most_recent_images # None
    /\ only_n_most_recent_images > 0

\* C32: in every iteration the image retention policy is applied iff the
\* provider is not ANTHROPIC and only_n_most_recent_images is a positive
\* integer; with 0 or None, or with the ANTHROPIC provider, no image is ever
\* removed from the history, however many iterations run.
C32_RetentionOnlyWithLimit ==
    [][/\ RequestStep
          => LET total == TotalImages(messages)
                 n == only_n_most_recent_images
                 E == IF LimitApplies /\ total > n
                      THEN (total - n) - ((total - n) % n) ELSE 0
             IN  /\ TotalImages(messages') = total - E
                 /\ Len(messages') = Len(messages)
                 /\ \A i \in 1..Len(messages) :
                        /\ Len(messages'[i].content) = Len(messages[i].content)
                        /\ \A j \in 1..Len(messages[i].content) :
                               messages'[i].content[j].content
                                   = WithoutOldest(messages, i, j, E)
       /\ (fn = "request" /\ ~LimitApplies)
          => TotalImages(messages') >= TotalImages(messages)
      ]_vars

\* with a limit of 1 and another provider a request has removed images, the
\* iteration before having added three
C32_Witness ==
    /\ RequestSent
    /\ LimitApplies
    /\ only_n_most_recent_images = 1
    /\ TotalImages(LastOf(fn_before)) = 3
    /\ TotalImages(messages) = 1

\* C34: with a provider other than ANTHROPIC and only_n_most_recent_images =
\* k > 0, the history holds at most 2k - 1 tool_result images at the moment
\* each request is sent, whatever number of images each tool-result turn added.
C34_AtMostTwoKMinusOne ==
    (RequestSent /\ LimitApplies)
        => TotalImages(messages) <= 2 * only_n_most_recent_images - 1

\* with k = 2 a third request goes out with 2k - 1 = 3 images, images having
\* been removed before
C34_Witness ==
    /\ RequestSent
    /\ LimitApplies
    /\ only_n_most_recent_images = 2
    /\ Len(fn_applied) = 5
    /\ TotalImages(fn_before[5]) = 5
    /\ TotalImages(messages) = 3

\* a call of the cache annotator: a request of an ANTHROPIC session goes out
\* with the history as the call leaves it
AnnotatedRequestStep == fn = "caching" /\ Len(fn_applied') = Len(fn_applied) + 1

\* C33: in a session that uses the ANTHROPIC provider throughout and starts
\* from a history without markers, at the moment each request is sent a
\* cache-breakpoint marker sits only on the last content block of user-role
\* turns, at most 3 turns carry one, and they are the 3 most recent user turns
\* with list content.
C33_MarkersAtEachRequest ==
    [][AnnotatedRequestStep
       => /\ \A i \in 1..Len(messages') :
                 \A n \in 1..Len(messages'[i].content) :
                     messages'[i].content[n].cache_control
                         => /\ messages'[i].role = "user"
                            /\ n = Len(messages'[i].content)
          /\ Cardinality(MarkedTurns(messages')) <= BreakpointsInitial
          /\ MarkedTurns(messages')
                 = MostRecent(ListUserTurns(messages'), BreakpointsInitial)
      ]_vars

\* a step in which an exception escapes from the dispatch of a tool
DispatchRaisesStep ==
    /\ LoopStep
    /\ SinkStep
    /\ LastOf(dispatch_log').sink_raised

\* C35: if an exception escapes while the k-th tool of an assistant turn is
\* dispatched, the run ends in FAILED with that assistant turn as the last
\* turn of the history and no tool-result turn appended: the results of the
\* k-1 tools that already ran are not in the history although their sink
\* notifications were delivered, and the remaining tools are never run.
C35_DispatchFailureEndsRun ==
    /\ [][DispatchRaisesStep
          => /\ pc' = "FAILED"
             /\ ~in_sampling_loop'
             /\ messages' = messages
             /\ LastOf(messages).role = "assistant"
             /\ LastOf(messages).content = response_params
             /\ Len(dispatch_log') = Len(tool_results) + 1
             /\ \A n \in 1..Len(tool_results) :
                    /\ dispatch_log'[n].id = tool_results[n].id
                    /\ ResultsAfter(messages', Len(messages') - 1,
                                    tool_results[n].id) = {}
         ]_vars
    /\ [][(pc = "FAILED" /\ fail_at = "DISPATCHING_TOOLS" /\ runs' = runs)
          => /\ dispatch_log' = dispatch_log
             /\ running' = {}
             /\ messages' = messages
         ]_vars

\* the blocks of a turn that the interruption handler writes
SyntheticBlocks(content) ==
    {i \in 1..Len(content) :
        \/ content[i] = BetaTextBlockParam(INTERRUPT_TEXT)
        \/ /\ content[i].type = "tool_result"
           /\ content[i].text = INTERRUPT_TOOL_ERROR}

\* C36: in_sampling_loop is set to true when a sampling_loop call starts and
\* back to false only when that call returns normally (TERMINATED or FAILED);
\* a call that is aborted or raises leaves the flag true, so the next user
\* input is treated as an interruption, while after a normal return (a FAILED
\* run that left unpaired tool_use blocks included) the next user input adds
\* no synthetic tool_result blocks.  (The Reset button ends the session and
\* builds its state anew, flag included.)
C36_FlagFollowsTheCall ==
    /\ [](pc \in Running \cup {"ABORTED", "RAISED"} => in_sampling_loop)
    /\ [](pc \in {"TERMINATED", "FAILED"} => ~in_sampling_loop)
    /\ [][(runs' = runs + 1) => (in_sampling_loop' /\ pc' = "BUILD_REQUEST")]_vars
    /\ [][ReturnStep
          => (pc \in Running /\ pc' \in {"TERMINATED", "FAILED"})]_vars
    /\ [][(pc \in {"ABORTED", "RAISED"} /\ pc' \in {"ABORTED", "RAISED"})
          => in_sampling_loop']_vars
    /\ [][(UserInputStep /\ pc \in {"ABORTED", "RAISED"})
          => LET ids == ToolUseIds(LastOf(messages).content)
                 c == LastOf(messages').content
             IN  /\ Len(c) = Len(ids) + 2
                 /\ c[Len(c) - 1] = BetaTextBlockParam(INTERRUPT_TEXT)
                 /\ \A i \in 1..Len(ids) :
                        c[i] = BetaToolResultBlockParam(ids[i], FALSE,
                                       INTERRUPT_TOOL_ERROR, <<>>, TRUE)
         ]_vars
    /\ [][(UserInputStep /\ pc \in {"IDLE", "TERMINATED", "FAILED"})
          => SyntheticBlocks(LastOf(messages').content) = {}
         ]_vars

\* a run failed while it dispatched the tools of its assistant turn and
\* returned; the next input was appended bare after the unpaired tool_use
\* blocks and a new run was started on it
C36_Witness ==
    /\ fn = "session"
    /\ runs = 2
    /\ pc = "BUILD_REQUEST"
    /\ Len(messages) >= 3
    /\ messages[Len(messages) - 1].role = "assistant"
    /\ ToolUseIds(messages[Len(messages) - 1].content) # <<>>
    /\ Len(LastOf(messages).content) = 1
    /\ LastOf(messages).sender_enum

\* the tool_use ids of the tool_result blocks of a history
ToolResultIds(msgs) ==
    UNION {{msgs[i].content[j].id :
               j \in {n \in 1..Len(msgs[i].content) :
                          msgs[i].content[n].type = "tool_result"}} :
           i \in 1..Len(msgs)}

\* C37: in every reachable state of a session each tool_result block of the
\* history has its tool_use_id as a key of the UI tool-result map: the entry
\* is written by the tool sink or by the interruption handler before the
\* block is appended, and a reset clears the history and the map together.
C37_ResultsHaveMapEntries ==
    /\ [](ToolResultIds(messages) \subseteq tools)
    /\ [](\A n \in 1..Len(tool_results) : tool_results[n].id \in tools)
    /\ [][ResetStep => tools' = {}]_vars
    /\ [][(tools # {} /\ tools' = {}) => messages' = <<>>]_vars

\* the history holds a tool_result written by the loop and one written by the
\* interruption handler, each with its entry in the map
C37_Witness ==
    /\ fn = "session"
    /\ Cardinality(ToolResultIds(messages)) = 2
    /\ \E i \in 1..Len(messages) :
          /\ ~messages[i].sender_enum
          /\ ToolResultIds(<<messages[i]>>) # {}
    /\ \E i \in 1..Len(messages) :
          /\ messages[i].sender_enum
          /\ ToolResultIds(<<messages[i]>>) # {}
    /\ ToolResultIds(messages) \subseteq tools

\* a step in which main starts a sampling_loop call
StartStep == runs' = runs + 1

\* C38: the UI starts a sampling_loop run only when authentication has been
\* validated for the current provider, the history is non-empty and its last
\* turn has role user; with an empty history, an assistant last turn or a
\* failing auth check no run starts and the history is unchanged.
C38_StartConditions ==
    /\ [](pc \in Running => auth_validated /\ messages # <<>>)
    /\ [][StartStep
          => /\ auth_validated'
             /\ messages' # <<>>
             /\ LastOf(messages').role = "user"
             /\ iter_start' = messages'
             /\ pc' = "BUILD_REQUEST"
         ]_vars
    /\ [][(~auth_validated' /\ ~ResetStep)
          => ~StartStep /\ messages' = messages /\ pc' \notin Running]_vars
    /\ [][(~LoopStep /\ ~ResetStep
              /\ (messages' = <<>> \/ LastOf(messages').role = "assistant"))
          => ~StartStep /\ messages' = messages /\ pc' \notin Running]_vars
    /\ [][(~LoopStep /\ ~ResetStep /\ ~StartStep) => messages' = messages]_vars

\* a run of the script without chat input found the tool-result turn of the
\* loop it replaced as the last turn, and started a new call on that history
C38_Witness ==
    /\ fn = "session"
    /\ pc = "BUILD_REQUEST"
    /\ runs = 2
    /\ auth_validated
    /\ iter_start = messages
    /\ LastOf(messages).role = "user"
    /\ ~LastOf(messages).sender_enum
    /\ response_params = <<>>

\* a step of the provider radio's handler with a new selection
ProviderChangeStep ==
    /\ fn = "provider"
    /\ Len(fn_applied') = Len(fn_applied) + 1
    /\ LastOf(fn_applied') # provider

\* a step of the provider radio's handler with the selection unchanged
ProviderSameStep ==
    /\ fn = "provider"
    /\ Len(fn_applied') = Len(fn_applied) + 1
    /\ LastOf(fn_applied') = provider

\* C39: when the selected API provider changes, the session's provider becomes
\* the newly selected one, the model is reset to the default model of the
\* newly selected provider (with its tool version and token settings), and
\* auth_validated is set to false; when the selection is unchanged, none of
\* these is modified.
C39_ProviderChangeResetsModel ==
    /\ [][ProviderChangeStep
          => /\ provider' = LastOf(fn_applied')
             /\ ~auth_validated'
             /\ fn_arg' = _reset_model_conf(entrypoint,
                              PROVIDER_TO_DEFAULT_MODEL_NAME[provider'])
         ]_vars
    /\ [][ProviderSameStep
          => UNCHANGED <<provider, auth_validated, fn_arg>>]_vars

====
